---------------------------- MODULE Spec2Model ----------------------------
(***************************************************************************)
(* A model of the resilient extraction pipeline of BlogSummrizer:          *)
(*   - ImageDownloader.downloadImages   (src/src/services/ImageDownloader) *)
(*   - OllamaClient                     (src/unnamed/part_004)             *)
(*   - ErrorHandler                     (src/unnamed/part_005)             *)
(* Each component has its own next-state relation and specification; the   *)
(* components share no state, so each is checked on its own.               *)
(***************************************************************************)
EXTENDS Integers, Sequences, FiniteSets, TLC

VARIABLES
  \* ---- ImageDownloader.downloadImages: one call
  dlState,        \* "idle" | "running" | "returned" | "raised"
  nImages,        \* images.length of the call
  maxConcurrent,  \* the maxConcurrent argument
  i,              \* the loop variable of downloadImages (0-based)
  batch,          \* positions (1-based) of the current images.slice(i, i + maxConcurrent)
  proc,           \* per image position: the state of its processImage promise
  results,        \* results: LocalImage[]
  hashes,         \* hashes: Set<string>
  files,          \* the files present in outputDir
  batchLog,       \* history: the non-empty batches started so far, in order
  peakInFlight,   \* history: the largest number of unsettled processImage promises seen
  outOfOrder,     \* history: some promise settled while an earlier one of its batch had not
  \* ---- OllamaClient: one client instance and the server it talks to
  serverModels,   \* the names GET /api/tags would list now, in the server's order
  serverChanges,  \* how often the server's model set has changed
  availableModels,\* this.availableModels: [loaded, models] (loaded = FALSE is null)
  tagRequests,    \* history: number of GET /api/tags requests sent by getAvailableModels
  fetched,        \* history: the inventories assigned to this.availableModels, in order
  fb,             \* one generateSummaryWithFallback call
  sel,            \* one selectBestModel call
  \* ---- ErrorHandler: one handler instance
  exitOnFatal,    \* this.options.exitOnFatal
  errorCount,     \* this.errorCount
  recoveryAttempts, \* this.recoveryAttempts: a Map from code to count
  lastResult,     \* the ErrorHandlingResult of the handle call started last
  sleeping,       \* number of handle calls waiting in this.sleep
  exited,         \* process.exit(1) was called
  sleeps,         \* history: the backoffMs passed to this.sleep since the last reset, in order
  occurrences,    \* history: per code, the handle calls for it since the last reset
  actionsRun,     \* history: per code, how often the recovery switch was entered since the last reset
  nHandles,       \* history: number of handle calls
  fatalChecks,    \* history: the ErrorHandler.isFatal calls made, as [error, result]
  runs,           \* history: the pipeline run of the latest handleError call, and per
                  \* <<run, code>> the handleError calls made for that run
  \* ---- Image acquisition of the pipeline runs of one batch
  disk,           \* the files in ./temp_images: path -> [writer, bytes]
  acq,            \* per run: the processImage call for its image
  foreign,        \* history: <<kind, actor, owner>> for every read, overwrite or delete
                  \* by run `actor` of a file last written by another run `owner`
  \* ---- BrowserEngine: one engine instance
  load,           \* one loadPageWithCookies call
  paywall,        \* one detectPaywall call
  \* ---- extractSingleArticle: one pipeline run (it uses `load` for its page)
  extract,        \* the run: its position, options, results and history
  \* ---- batchExtract: one call
  bx,             \* the call: its position, urls, parallelCount, i, runs and history
  \* ---- OllamaClient.generateSummaryStream: one call
  stream          \* the call: the response stream, what arrived, what was yielded

imgVars == <<dlState, nImages, maxConcurrent, i, batch, proc, results, hashes,
             files, batchLog, peakInFlight, outOfOrder>>

ollamaVars == <<serverModels, serverChanges, availableModels, tagRequests, fetched,
               fb, sel>>

handlerVars == <<exitOnFatal, errorCount, recoveryAttempts, lastResult, sleeping,
                 exited, sleeps, occurrences, actionsRun, nHandles>>

errVars == <<handlerVars, fatalChecks, runs>>

batchVars == <<disk, acq, foreign>>

browserVars == <<load, paywall>>

cliVars == <<extract, bx>>

streamVars == <<stream>>

vars == <<imgVars, ollamaVars, errVars, batchVars, browserVars, cliVars, streamVars>>

\* What the actions of one component leave alone
notImgVars == <<ollamaVars, errVars, batchVars, browserVars, cliVars, streamVars>>

notOllamaVars == <<imgVars, errVars, batchVars, browserVars, cliVars, streamVars>>

notErrVars == <<imgVars, ollamaVars, batchVars, browserVars, cliVars, streamVars>>

notBatchVars == <<imgVars, ollamaVars, errVars, browserVars, cliVars, streamVars>>

notBrowserVars == <<imgVars, ollamaVars, errVars, batchVars, cliVars, streamVars>>

\* What a pipeline run leaves alone besides its page load
notCliVars == <<imgVars, ollamaVars, errVars, batchVars, paywall, bx, streamVars>>

\* What a batchExtract call leaves alone
notBxVars == <<imgVars, ollamaVars, errVars, batchVars, browserVars, extract, streamVars>>

\* What a generateSummaryStream call leaves alone
notStreamVars == <<imgVars, ollamaVars, errVars, batchVars, browserVars, cliVars>>

-----------------------------------------------------------------------------
(* Bounds of the model *)

MaxImages == 5

MaxConcurrent == 2

NumContents == 2

MaxInventory == 2

MaxFallbacks == 2

MaxPreferences == 2

MaxServerChanges == 1

MaxHandles == 4

MaxFatalChecks == 2

MaxRuns == 2

MaxRetries == 3

MaxCookies == 2

MaxHtml == 2

MaxUrls == 3

MaxOptionLen == 2

MaxObjects == 2

-----------------------------------------------------------------------------
(* Small helpers *)

Min(a, b) == IF a < b THEN a ELSE b

Max(a, b) == IF a > b THEN a ELSE b

Range(s) == {s[k] : k \in 1..Len(s)}

-----------------------------------------------------------------------------
(***************************************************************************)
(* ImageDownloader                                                         *)
(***************************************************************************)

Positions == 1..MaxImages

Contents == 1..NumContents

\* hashFile: SHA-256 of the downloaded bytes; collision resistance is modelled
\* as injectivity, and the digest is a value distinct from the bytes it hashes.
hashFile(bytes) == <<"sha256", bytes>>

\* generateFilename(url, index): image-<index>-<md5(url)[0..8]><ext>; the index
\* alone already makes the names of one call pairwise distinct.
localPathOf(p) == <<"image", p - 1>>

tempPathOf(p) == <<"temp-image", p - 1>>

IdleProc == [pc |-> "idle", bytes |-> 0, hash |-> <<>>]

\* A rejected promise carries only its error: the locals of processImage are gone.
RejectedProc == [pc |-> "rejected", bytes |-> 0, hash |-> <<>>]

InFlightPcs == {"downloading", "hashing", "optimizing"}

SettledPcs == {"fulfilled", "rejected"}

InFlight(pr) == {p \in Positions : pr[p].pc \in InFlightPcs}

\* Position p's promise settles while an earlier promise of its batch is pending.
SettlesEarly(p) == \E q \in Range(batch) : q < p /\ proc[q].pc \in InFlightPcs

\* images.slice(i, i + maxConcurrent), as 1-based positions in input order
SliceMutWide(from, mc, n) == [k \in 1..(Min(from + mc + 1, n) - from) |-> from + k]

Slice(from, mc, n) == [k \in 1..(Min(from + mc, n) - from) |-> from + k]

\* The synchronous prefix of processImage (ensureDir, generateFilename: both
\* outside its try block) either throws, which rejects the promise at once,
\* or reaches the await of downloadImage.
StartBatch(pr, b, syncFail) ==
  [p \in Positions |->
     IF p \in Range(b)
       THEN IF p \in syncFail THEN RejectedProc
                              ELSE [IdleProc EXCEPT !.pc = "downloading"]
       ELSE pr[p]]

\* hashes.has(result.value.hash)
HashSeenMutNever(hs, h) == FALSE

HashSeen(hs, h) == h \in hs

\* results.push(result.value)
PushMutFront(rs, v) == <<v>> \o rs

Push(rs, v) == Append(rs, v)

\* The LocalImage a fulfilled processImage returns
LocalImage(p, pr) == [index |-> p - 1, hash |-> pr[p].hash, localPath |-> localPathOf(p)]

\* for (const result of batchResults) { ... }: Promise.allSettled keeps the
\* order of the batch, whatever order the promises settled in.
RECURSIVE Collect(_, _, _, _)
Collect(b, pr, rs, hs) ==
  IF b = <<>> THEN [results |-> rs, hashes |-> hs]
  ELSE LET p == Head(b) IN
       IF pr[p].pc = "fulfilled" /\ ~HashSeen(hs, pr[p].hash)
         THEN Collect(Tail(b), pr, Push(rs, LocalImage(p, pr)), hs \cup {pr[p].hash})
         ELSE Collect(Tail(b), pr, rs, hs)

\* Promise.allSettled never rejects; Promise.all would reject as soon as one
\* processImage promise rejects.
AwaitRaisesMutAll(b, pr) == \E p \in Range(b) : pr[p].pc = "rejected"

AwaitRaises(b, pr) == FALSE

\* Promise.allSettled resolves when every promise of the batch has settled.
AwaitResumesMutAny(b, pr) == \E p \in Range(b) : pr[p].pc \in SettledPcs

AwaitResumes(b, pr) == \A p \in Range(b) : pr[p].pc \in SettledPcs

\* The head of the for loop at index `from`: start the next batch, or return.
LoopHead(from, n, mc, pr, failing) ==
  IF from < n
    THEN LET b == Slice(from, mc, n)
             npr == StartBatch(pr, b, failing)
         IN /\ dlState' = "running"
            /\ batch' = b
            /\ proc' = npr
            /\ batchLog' = IF b = <<>> THEN batchLog ELSE Append(batchLog, b)
            /\ peakInFlight' = Max(peakInFlight, Cardinality(InFlight(npr)))
    ELSE /\ dlState' = "returned"
         /\ batch' = <<>>
         /\ proc' = pr
         /\ UNCHANGED <<batchLog, peakInFlight>>

\* downloadImages(images, outputDir, maxConcurrent): ensureDir, then the first
\* loop iteration up to its await.
DownloadImagesCall(n, mc, dirOk, failing) ==
  /\ dlState = "idle"
  /\ UNCHANGED notImgVars
  /\ nImages' = n
  /\ maxConcurrent' = mc
  /\ i' = 0
  /\ results' = <<>>
  /\ hashes' = {}
  /\ files' = {}
  /\ UNCHANGED outOfOrder
  /\ IF dirOk
       THEN LoopHead(0, n, mc, proc, failing)
       ELSE /\ dlState' = "raised"
            /\ UNCHANGED <<batch, proc, batchLog, peakInFlight>>

\* processImage: `await this.downloadImage(image.src)` settles, followed by
\* fs.writeFileSync(tempPath, buffer) and the start of hashFile.
DownloadSettle(p) ==
  /\ dlState = "running"
  /\ UNCHANGED notImgVars
  /\ proc[p].pc = "downloading"
  /\ \/ /\ proc' = [proc EXCEPT ![p] = RejectedProc]
        /\ UNCHANGED files
     \/ \E c \in Contents :
          /\ proc' = [proc EXCEPT ![p].pc = "hashing", ![p].bytes = c]
          /\ files' = files \cup {tempPathOf(p)}
  /\ outOfOrder' = (outOfOrder \/ (proc'[p].pc \in SettledPcs /\ SettlesEarly(p)))
  /\ UNCHANGED <<dlState, nImages, maxConcurrent, i, batch, results, hashes,
                 batchLog, peakInFlight>>

\* processImage: `await this.hashFile(tempPath)` settles (a stream error
\* rejects), followed by the start of optimizeImage.
HashSettle(p) ==
  /\ dlState = "running"
  /\ UNCHANGED notImgVars
  /\ proc[p].pc = "hashing"
  /\ \/ proc' = [proc EXCEPT ![p] = RejectedProc]
     \/ proc' = [proc EXCEPT ![p].pc = "optimizing", ![p].hash = hashFile(proc[p].bytes)]
  /\ outOfOrder' = (outOfOrder \/ (proc'[p].pc \in SettledPcs /\ SettlesEarly(p)))
  /\ UNCHANGED <<dlState, nImages, maxConcurrent, i, batch, results, hashes, files,
                 batchLog, peakInFlight>>

\* processImage: `await this.optimizeImage(tempPath, localPath)` settles,
\* followed by fs.unlinkSync(tempPath) and the return of the LocalImage.
\* A failure of optimizeImage leaves the temp file where it is.
OptimizeSettle(p) ==
  /\ dlState = "running"
  /\ UNCHANGED notImgVars
  /\ proc[p].pc = "optimizing"
  /\ \/ /\ proc' = [proc EXCEPT ![p] = RejectedProc]
        /\ UNCHANGED files
     \/ /\ proc' = [proc EXCEPT ![p].pc = "fulfilled"]
        /\ files' = (files \cup {localPathOf(p)}) \ {tempPathOf(p)}
  /\ outOfOrder' = (outOfOrder \/ (proc'[p].pc \in SettledPcs /\ SettlesEarly(p)))
  /\ UNCHANGED <<dlState, nImages, maxConcurrent, i, batch, results, hashes,
                 batchLog, peakInFlight>>

\* `await Promise.allSettled(...)` resumes once every promise of the batch has
\* settled; then the result loop, `i += maxConcurrent` and the next loop head.
BatchSettled(failing) ==
  /\ dlState = "running"
  /\ UNCHANGED notImgVars
  /\ AwaitResumes(batch, proc)
  /\ UNCHANGED <<nImages, maxConcurrent, files, outOfOrder>>
  /\ IF AwaitRaises(batch, proc)
       THEN /\ dlState' = "raised"
            /\ UNCHANGED <<i, batch, proc, results, hashes, batchLog, peakInFlight>>
       ELSE LET c == Collect(batch, proc, results, hashes) IN
            /\ results' = c.results
            /\ hashes' = c.hashes
            /\ i' = i + maxConcurrent
            /\ LoopHead(i + maxConcurrent, nImages, maxConcurrent, proc, failing)

InitImg ==
  /\ dlState = "idle"
  /\ nImages = 0
  /\ maxConcurrent = 1
  /\ i = 0
  /\ batch = <<>>
  /\ proc = [p \in Positions |-> IdleProc]
  /\ results = <<>>
  /\ hashes = {}
  /\ files = {}
  /\ batchLog = <<>>
  /\ peakInFlight = 0
  /\ outOfOrder = FALSE

NextImg ==
  \/ \E n \in 0..MaxImages, mc \in 1..MaxConcurrent, dirOk \in BOOLEAN :
       \E failing \in SUBSET Range(Slice(0, mc, n)) :
         DownloadImagesCall(n, mc, dirOk, failing)
  \/ \E p \in Positions : DownloadSettle(p)
  \/ \E p \in Positions : HashSettle(p)
  \/ \E p \in Positions : OptimizeSettle(p)
  \/ \E failing \in SUBSET Range(Slice(i + maxConcurrent, maxConcurrent, nImages)) :
       BatchSettled(failing)

\* downloadImages called with any maxConcurrent from 0 on, for short lists
NextImgAny ==
  \/ \E n \in 0..(MaxConcurrent + 1), mc \in 0..MaxConcurrent, dirOk \in BOOLEAN :
       \E failing \in SUBSET Range(Slice(0, mc, n)) :
         DownloadImagesCall(n, mc, dirOk, failing)
  \/ \E p \in Positions : DownloadSettle(p)
  \/ \E p \in Positions : HashSettle(p)
  \/ \E p \in Positions : OptimizeSettle(p)
  \/ \E failing \in SUBSET Range(Slice(i + maxConcurrent, maxConcurrent, nImages)) :
       BatchSettled(failing)

-----------------------------------------------------------------------------
(***************************************************************************)
(* OllamaClient                                                            *)
(***************************************************************************)

\* Model names are strings; a string is modelled as a sequence of fragments
\* so that String.prototype.includes is a real substring test.
ServerNames == { <<"llama3.1", ":latest">>, <<"mistral">>, <<"qwen3", ":4b">> }

RequestNames == { <<"llama3.1">>, <<"mistral">>, <<"qwen3", ":4b">> }

\* null, for a model name
NoModel == <<>>

SeqsUpTo(S, n) == UNION {[1..k -> S] : k \in 0..n}

NoRepeat(q) == \A a, b \in 1..Len(q) : a # b => q[a] # q[b]

\* What GET /api/tags can answer: response.data.models || []
Inventories == {q \in SeqsUpTo(ServerNames, MaxInventory) : NoRepeat(q)}

\* name.includes(sub)
includesMutExact(name, sub) == name = sub

includes(name, sub) ==
  \E k \in 0..(Len(name) - Len(sub)) : SubSeq(name, k + 1, k + Len(sub)) = sub

\* models.some(m => m.name.includes(modelName))
someIncludesMutAlways(models, modelName) == TRUE

someIncludes(models, modelName) ==
  \E k \in 1..Len(models) : includes(models[k], modelName)

\* selectBestModel after `models` was obtained: the first preference some
\* model name includes, else modelNames[0] || null.
firstPreferredMutLast(modelNames, preferredModels) ==
  LET matching == {k \in 1..Len(preferredModels) :
                     someIncludes(modelNames, preferredModels[k])}
  IN IF matching = {}
       THEN IF Len(modelNames) > 0 THEN modelNames[1] ELSE NoModel
       ELSE preferredModels[CHOOSE k \in matching : \A m \in matching : m <= k]

RECURSIVE firstPreferred(_, _)
firstPreferred(modelNames, preferredModels) ==
  IF preferredModels = <<>>
    THEN IF Len(modelNames) > 0 /\ modelNames[1] # <<>> THEN modelNames[1] ELSE NoModel
    ELSE IF someIncludes(modelNames, Head(preferredModels))
           THEN Head(preferredModels)
           ELSE firstPreferred(modelNames, Tail(preferredModels))

NotLoaded == [loaded |-> FALSE, models |-> <<>>]

Loaded(models) == [loaded |-> TRUE, models |-> models]

NoError == [kind |-> "none", model |-> NoModel]

\* One generateSummaryWithFallback call: its position, modelsToTry, the index
\* of the candidate at hand, lastError, the inventory its last hasModel read,
\* what it returned (result) or threw (thrown), and as history the candidate
\* indices it sent POST /api/generate for, the number of such requests not
\* yet answered, the index of the request that succeeded and the errors
\* generateSummary threw, in order.
IdleFb == [pc |-> "idle", modelsToTry |-> <<>>, idx |-> 0, lastError |-> NoError,
           requests |-> <<>>, inFlight |-> 0, okIdx |-> 0, models |-> NotLoaded,
           errors |-> <<>>,
           result |-> NoModel, thrown |-> [kind |-> "none", cause |-> NoError]]

IdleSel == [pc |-> "idle", preferredModels |-> <<>>, models |-> NotLoaded,
            result |-> NoModel]

\* The failures generateSummary distinguishes in its catch block
GenerateFailures == {"ECONNREFUSED", "MODEL_NOT_FOUND", "FAILED"}

\* for (const model of modelsToTry): the candidate after the k-th
NextIndex(k) == k + 1

\* The candidate the loop of generateSummaryWithFallback reaches from index k
\* while hasModel answers from the cache `models`: the first one from k on
\* that the inventory has, or Len + 1 when the loop runs out.
RECURSIVE firstAvailableFrom(_, _, _)
firstAvailableFrom(k, toTry, models) ==
  IF k > Len(toTry) THEN k
  ELSE IF someIncludes(models, toTry[k]) THEN k
       ELSE firstAvailableFrom(NextIndex(k), toTry, models)

\* throw new Error(`All summarization models failed. Last error: ${
\* lastError?.message || 'Unknown error'}`): the aggregate error and the
\* message it carries (NoError stands for 'Unknown error')
AllFailedMutNoCause(lastError) == [kind |-> "ALL_FAILED", cause |-> NoError]

AllFailed(lastError) == [kind |-> "ALL_FAILED", cause |-> lastError]

\* The loop of generateSummaryWithFallback resumed at candidate k (1-based)
\* with the cache `cache`: a cached inventory answers hasModel without a
\* request, so absent candidates are skipped at once; with no cache hasModel
\* sends GET /api/tags and waits.
FallbackLoop(f, k, cache) ==
  IF k > Len(f.modelsToTry)
    THEN [f EXCEPT !.pc = "failed", !.idx = k, !.thrown = AllFailed(f.lastError)]
  ELSE IF ~cache.loaded
    THEN [f EXCEPT !.pc = "fetching", !.idx = k]
  ELSE LET j == firstAvailableFrom(k, f.modelsToTry, cache.models) IN
       IF j > Len(f.modelsToTry)
         THEN [f EXCEPT !.pc = "failed", !.idx = j, !.models = cache,
                        !.thrown = AllFailed(f.lastError)]
         ELSE [f EXCEPT !.pc = "generating", !.idx = j, !.models = cache,
                        !.requests = Append(f.requests, j),
                        !.inFlight = f.inFlight + 1]

\* generateSummaryWithFallback(text, options): modelsToTry = [primary, ...fallbacks]
FallbackCall(primaryModel, fallbackModels) ==
  /\ fb.pc = "idle"
  /\ LET f == FallbackLoop([IdleFb EXCEPT !.modelsToTry = <<primaryModel>> \o fallbackModels],
                           1, availableModels)
     IN /\ fb' = f
        /\ tagRequests' = tagRequests + (IF f.pc = "fetching" THEN 1 ELSE 0)
  /\ UNCHANGED notOllamaVars
  /\ UNCHANGED <<serverModels, serverChanges, availableModels, sel, fetched>>

\* hasModel -> getAvailableModels: GET /api/tags answered; the inventory is
\* cached and the candidate looked up in it.
FallbackTagsOk ==
  /\ fb.pc = "fetching"
  /\ availableModels' = Loaded(serverModels)
  /\ fetched' = Append(fetched, serverModels)
  /\ fb' = FallbackLoop(fb, fb.idx, Loaded(serverModels))
  /\ UNCHANGED notOllamaVars
  /\ UNCHANGED <<serverModels, serverChanges, tagRequests, sel>>

\* hasModel -> getAvailableModels: GET /api/tags failed; getAvailableModels
\* throws, hasModel answers false and the loop goes on to the next candidate.
FallbackTagsFail ==
  /\ fb.pc = "fetching"
  /\ LET f == FallbackLoop(fb, NextIndex(fb.idx), availableModels)
     IN /\ fb' = f
        /\ tagRequests' = tagRequests + (IF f.pc = "fetching" THEN 1 ELSE 0)
  /\ UNCHANGED notOllamaVars
  /\ UNCHANGED <<serverModels, serverChanges, availableModels, sel, fetched>>

\* `return await this.generateSummary(text, { ...options, model })`: the first
\* success ends the loop and is the result of the call.
OnGenerateOkMutContinue(f, cache) ==
  FallbackLoop([f EXCEPT !.inFlight = f.inFlight - 1, !.okIdx = f.idx,
                         !.result = f.modelsToTry[f.idx]],
               NextIndex(f.idx), cache)

OnGenerateOk(f, cache) ==
  [f EXCEPT !.pc = "done", !.inFlight = f.inFlight - 1, !.okIdx = f.idx,
            !.result = f.modelsToTry[f.idx]]

\* generateSummary: POST /api/generate answered with a non-empty response
GenerateOk ==
  /\ fb.pc = "generating"
  /\ fb' = OnGenerateOk(fb, availableModels)
  /\ UNCHANGED notOllamaVars
  /\ UNCHANGED <<serverModels, serverChanges, availableModels, tagRequests, sel, fetched>>

\* generateSummary throws (connection refused, model not found, anything
\* else including an empty response); the loop records the error and goes on.
GenerateFail(kind) ==
  /\ fb.pc = "generating"
  /\ LET error == [kind |-> kind, model |-> fb.modelsToTry[fb.idx]]
         failed == [fb EXCEPT !.inFlight = fb.inFlight - 1,
                              !.lastError = error,
                              !.errors = Append(fb.errors, error)]
         f == FallbackLoop(failed, NextIndex(fb.idx), availableModels)
     IN /\ fb' = f
        /\ tagRequests' = tagRequests + (IF f.pc = "fetching" THEN 1 ELSE 0)
  /\ UNCHANGED notOllamaVars
  /\ UNCHANGED <<serverModels, serverChanges, availableModels, sel, fetched>>

\* selectBestModel(preferredModels): answered from the cache when there is
\* one, else GET /api/tags is sent.
SelectCall(preferredModels) ==
  /\ sel.pc = "idle"
  /\ IF availableModels.loaded
       THEN /\ sel' = [pc |-> "returned", preferredModels |-> preferredModels,
                       models |-> availableModels,
                       result |-> firstPreferred(availableModels.models, preferredModels)]
            /\ UNCHANGED tagRequests
       ELSE /\ sel' = [IdleSel EXCEPT !.pc = "fetching", !.preferredModels = preferredModels]
            /\ tagRequests' = tagRequests + 1
  /\ UNCHANGED notOllamaVars
  /\ UNCHANGED <<serverModels, serverChanges, availableModels, fb, fetched>>

\* selectBestModel: its GET /api/tags is answered
SelectTagsOk ==
  /\ sel.pc = "fetching"
  /\ availableModels' = Loaded(serverModels)
  /\ fetched' = Append(fetched, serverModels)
  /\ sel' = [sel EXCEPT !.pc = "returned", !.models = Loaded(serverModels),
                        !.result = firstPreferred(serverModels, sel.preferredModels)]
  /\ UNCHANGED notOllamaVars
  /\ UNCHANGED <<serverModels, serverChanges, tagRequests, fb>>

\* The catch block of selectBestModel: return null
selectOnErrorMutFirstPreferred(s) ==
  [s EXCEPT !.pc = "returned",
            !.result = IF s.preferredModels = <<>> THEN NoModel ELSE s.preferredModels[1]]

selectOnError(s) == [s EXCEPT !.pc = "returned", !.result = NoModel]

\* selectBestModel: its GET /api/tags failed; getAvailableModels throws
SelectTagsFail ==
  /\ sel.pc = "fetching"
  /\ sel' = selectOnError(sel)
  /\ UNCHANGED notOllamaVars
  /\ UNCHANGED <<serverModels, serverChanges, availableModels, tagRequests, fb, fetched>>

\* A model is pulled on or removed from the server (outside the client)
ServerChange(inv) ==
  /\ serverChanges < MaxServerChanges
  /\ inv # serverModels
  /\ serverModels' = inv
  /\ serverChanges' = serverChanges + 1
  /\ UNCHANGED notOllamaVars
  /\ UNCHANGED <<availableModels, tagRequests, fb, sel, fetched>>

OllamaFresh(inv) ==
  /\ serverModels = inv
  /\ serverChanges = 0
  /\ availableModels = NotLoaded
  /\ tagRequests = 0
  /\ fetched = <<>>
  /\ fb = IdleFb
  /\ sel = IdleSel

InitOllama == \E inv \in Inventories : OllamaFresh(inv)

\* One generateSummaryWithFallback call on a fresh client
NextFallback ==
  \/ \E primaryModel \in RequestNames,
        fallbackModels \in SeqsUpTo(RequestNames, MaxFallbacks) :
       FallbackCall(primaryModel, fallbackModels)
  \/ FallbackTagsOk
  \/ FallbackTagsFail
  \/ GenerateOk
  \/ \E kind \in GenerateFailures : GenerateFail(kind)

\* One selectBestModel call, and the server's model set changing
NextSelect ==
  \/ \E preferredModels \in SeqsUpTo(RequestNames, MaxPreferences) :
       SelectCall(preferredModels)
  \/ SelectTagsOk
  \/ SelectTagsFail
  \/ \E inv \in Inventories : ServerChange(inv)

NextOllama == NextFallback \/ NextSelect

\* Calls on one client that may overlap: a generateSummaryWithFallback call
\* with at most one fallback, a selectBestModel call with at most one
\* preference, and the server's model set changing
NextCache ==
  \/ \E primaryModel \in RequestNames, fallbackModels \in SeqsUpTo(RequestNames, 1) :
       FallbackCall(primaryModel, fallbackModels)
  \/ FallbackTagsOk
  \/ FallbackTagsFail
  \/ GenerateOk
  \/ \E kind \in GenerateFailures : GenerateFail(kind)
  \/ \E preferredModels \in SeqsUpTo(RequestNames, 1) : SelectCall(preferredModels)
  \/ SelectTagsOk
  \/ SelectTagsFail
  \/ \E inv \in Inventories : ServerChange(inv)


-----------------------------------------------------------------------------
(***************************************************************************)
(* ErrorHandler and the error taxonomy                                     *)
(***************************************************************************)

\* The classes of errors.ts, and Error for anything outside the taxonomy
TaxonomyClasses ==
  {"PaywallDetectedError", "CookieExpiredError", "OllamaConnectionError",
   "OllamaModelNotFoundError", "InsufficientMemoryError", "ImageDownloadError",
   "NetworkTimeoutError", "FileSystemError", "ConfigValidationError"}

\* `class X extends ArticleExtractionError`, `class ArticleExtractionError extends Error`
superclass(cls) ==
  IF cls \in TaxonomyClasses THEN "ArticleExtractionError"
  ELSE IF cls = "ArticleExtractionError" THEN "Error"
  ELSE "Object"

\* error instanceof target, for an error constructed by class cls
RECURSIVE instanceOf(_, _)
instanceOf(cls, target) ==
  IF cls = target THEN TRUE
  ELSE IF cls = "Object" THEN FALSE
  ELSE instanceOf(superclass(cls), target)

\* The code each taxonomy constructor passes to super(...)
codeOf(cls) ==
  CASE cls = "PaywallDetectedError" -> "PAYWALL_DETECTED"
    [] cls = "CookieExpiredError" -> "COOKIE_EXPIRED"
    [] cls = "OllamaConnectionError" -> "OLLAMA_NOT_RUNNING"
    [] cls = "OllamaModelNotFoundError" -> "MODEL_NOT_FOUND"
    [] cls = "InsufficientMemoryError" -> "INSUFFICIENT_MEMORY"
    [] cls = "ImageDownloadError" -> "IMAGE_DOWNLOAD_FAILED"
    [] cls = "NetworkTimeoutError" -> "NETWORK_TIMEOUT"
    [] cls = "FileSystemError" -> "FILE_SYSTEM_ERROR"
    [] cls = "ConfigValidationError" -> "CONFIG_VALIDATION_ERROR"

\* The recoverable flag each taxonomy constructor passes to super(...)
recoverableOf(cls) == cls # "ConfigValidationError"

\* The message each taxonomy constructor builds from its arguments
messageOf(cls) == <<"message of", cls>>

\* new X(...) for a taxonomy class X: code, message and recoverable are what
\* the constructor passes to super(...); context.details.availableModels is
\* set by OllamaModelNotFoundError only (<<>> stands for undefined)
TaxonomyError(cls) ==
  [cls |-> cls, code |-> codeOf(cls), recoverable |-> recoverableOf(cls),
   message |-> messageOf(cls), availableModels |-> <<>>]

\* new OllamaModelNotFoundError(modelName, availableModels)
ModelNotFoundError(available) ==
  [TaxonomyError("OllamaModelNotFoundError") EXCEPT !.availableModels = available]

\* new ArticleExtractionError(message, code, context, suggestions, recoverable)
ArticleExtractionError(message, code, recoverable) ==
  [cls |-> "ArticleExtractionError", code |-> code, recoverable |-> recoverable,
   message |-> message, availableModels |-> <<>>]

\* new ArticleExtractionError('Test', code, {}, [], recoverable)
BaseError(code, recoverable) == ArticleExtractionError(<<"Test">>, code, recoverable)

\* new Error(message): it has neither a code nor a recoverable field
Raw(message) ==
  [cls |-> "Error", code |-> "undefined", recoverable |-> FALSE,
   message |-> message, availableModels |-> <<>>]

\* The messages of the errors from outside the taxonomy
RawMessages == {<<"Error 1">>, <<"Error 2">>}

RawError == Raw(<<"Error 1">>)

\* The errors handed to the handler: every taxonomy class, a model-not-found
\* error that lists available models, the base class as the tests construct
\* it, and errors outside the taxonomy
Errors ==
  {TaxonomyError(cls) : cls \in TaxonomyClasses}
    \cup {ModelNotFoundError(<<"mistral">>)}
    \cup {BaseError("TEST", r) : r \in BOOLEAN}
    \cup {Raw(message) : message \in RawMessages}

Codes == {codeOf(cls) : cls \in TaxonomyClasses} \cup {"TEST", "UNKNOWN_ERROR"}

\* new Map()
EmptyMap == [c \in {} |-> 0]

\* map.get(key) || 0
getOrZero(map, key) == IF key \in DOMAIN map THEN map[key] ELSE 0

\* map.set(key, value)
set(map, key, value) ==
  [k \in DOMAIN map \cup {key} |-> IF k = key THEN value ELSE map[k]]

\* normalizeError
normalizeErrorMutOwnMessage(error) ==
  IF instanceOf(error.cls, "ArticleExtractionError")
    THEN error
    ELSE ArticleExtractionError(<<"Unknown error">>, "UNKNOWN_ERROR", TRUE)

normalizeError(error) ==
  IF instanceOf(error.cls, "ArticleExtractionError")
    THEN error
    ELSE ArticleExtractionError(error.message, "UNKNOWN_ERROR", TRUE)

\* attemptRecovery: `if (attemptCount >= 3) return false`
capReachedMutNever(attemptCount) == FALSE

capReached(attemptCount) == attemptCount >= 3

\* recoverFromNetworkTimeout: Math.pow(2, attemptCount) * 1000
backoffMs(attemptCount) == (2 ^ attemptCount) * 1000

\* recoverFromNetworkTimeout with the count it reads from recoveryAttempts:
\* what it returns and the waits it makes
recoverFromNetworkTimeout(attemptCount) ==
  IF attemptCount < 3
    THEN [recovered |-> TRUE, waits |-> <<backoffMs(attemptCount)>>]
    ELSE [recovered |-> FALSE, waits |-> <<>>]

\* recoverFromModelNotFound: with a non-empty availableModels it falls back
\* to the first of them, otherwise it skips summarization; true either way
recoverFromModelNotFoundMutNeedsList(error) == Len(error.availableModels) > 0

recoverFromModelNotFound(error) ==
  IF Len(error.availableModels) > 0 THEN TRUE ELSE TRUE

\* recoverFromPaywall: cannot recover without user intervention
recoverFromPaywallMutRetry(error) == TRUE

recoverFromPaywall(error) == FALSE

\* recoverFromCookieExpiry: cannot recover without new cookies
recoverFromCookieExpiry(error) == FALSE

\* The switch of attemptRecovery, entered after recoveryAttempts was updated
\* to `attempts`
recoverySwitchMutDefaultTrue(error, attempts) ==
  IF instanceOf(error.cls, "NetworkTimeoutError")
    THEN recoverFromNetworkTimeout(getOrZero(attempts, error.code))
    ELSE [recovered |-> TRUE, waits |-> <<>>]

recoverySwitch(error, attempts) ==
  IF instanceOf(error.cls, "ImageDownloadError") THEN [recovered |-> TRUE, waits |-> <<>>]
  ELSE IF instanceOf(error.cls, "OllamaConnectionError") THEN [recovered |-> TRUE, waits |-> <<>>]
  ELSE IF instanceOf(error.cls, "OllamaModelNotFoundError")
    THEN [recovered |-> recoverFromModelNotFound(error), waits |-> <<>>]
  ELSE IF instanceOf(error.cls, "NetworkTimeoutError")
    THEN recoverFromNetworkTimeout(getOrZero(attempts, error.code))
  ELSE IF instanceOf(error.cls, "PaywallDetectedError")
    THEN [recovered |-> recoverFromPaywall(error), waits |-> <<>>]
  ELSE IF instanceOf(error.cls, "CookieExpiredError")
    THEN [recovered |-> recoverFromCookieExpiry(error), waits |-> <<>>]
  ELSE [recovered |-> FALSE, waits |-> <<>>]

\* attemptRecovery(error) with the Map `attempts`: the Map afterwards, whether
\* the switch was entered, what is returned and the waits made
attemptRecovery(error, attempts) ==
  IF capReached(getOrZero(attempts, error.code))
    THEN [attempts |-> attempts, entered |-> FALSE, recovered |-> FALSE, waits |-> <<>>]
    ELSE LET updated == set(attempts, error.code, getOrZero(attempts, error.code) + 1)
             r == recoverySwitch(error, updated)
         IN [attempts |-> updated, entered |-> TRUE,
             recovered |-> r.recovered, waits |-> r.waits]

\* handle: `if (extractionError.recoverable)` guards attemptRecovery
eligibleForRecoveryMutAlways(error) == TRUE

eligibleForRecovery(error) == error.recoverable

NoResult == [state |-> "none", handled |-> FALSE, recovered |-> FALSE,
             error |-> RawError, given |-> RawError]

\* handle(error): everything up to the first suspension runs in one step; a
\* NetworkTimeout recovery then waits in this.sleep before the call returns.
handle(error) ==
  /\ ~exited
  /\ nHandles < MaxHandles
  /\ nHandles' = nHandles + 1
  /\ errorCount' = errorCount + 1
  /\ LET extractionError == normalizeError(error)
         a == IF eligibleForRecovery(extractionError)
                THEN attemptRecovery(extractionError, recoveryAttempts)
                ELSE [attempts |-> recoveryAttempts, entered |-> FALSE,
                      recovered |-> FALSE, waits |-> <<>>]
         exits == ~extractionError.recoverable /\ exitOnFatal
     IN /\ recoveryAttempts' = a.attempts
        /\ sleeps' = sleeps \o a.waits
        /\ sleeping' = sleeping + Len(a.waits)
        /\ exited' = exits
        /\ occurrences' = set(occurrences, extractionError.code,
                               getOrZero(occurrences, extractionError.code) + 1)
        /\ actionsRun' = IF a.entered
                           THEN set(actionsRun, extractionError.code,
                                    getOrZero(actionsRun, extractionError.code) + 1)
                           ELSE actionsRun
        /\ lastResult' = [state |-> IF exits THEN "exited"
                                    ELSE IF a.waits # <<>> THEN "sleeping"
                                    ELSE "returned",
                          handled |-> TRUE, recovered |-> a.recovered,
                          error |-> extractionError, given |-> error]
  /\ UNCHANGED <<exitOnFatal, fatalChecks>>
  /\ UNCHANGED notErrVars

\* handler.handle(error), called on the instance
Handle(error) == handle(error) /\ UNCHANGED runs

\* The pipeline runs of one process (a batch of articles)
Runs == 1..MaxRuns

\* The errors the runs report
RunErrors ==
  {TaxonomyError("ImageDownloadError"), TaxonomyError("NetworkTimeoutError"),
   TaxonomyError("ConfigValidationError"), RawError}

NoRuns == [last |-> 0, calls |-> EmptyMap]

\* handleError(error, context), called on behalf of pipeline run `run`: it
\* hands the error to the one handler getGlobalErrorHandler() keeps for the
\* process
HandleError(run, error) ==
  /\ handle(error)
  /\ runs' = [last |-> run,
              calls |-> set(runs.calls, <<run, normalizeError(error).code>>,
                            getOrZero(runs.calls, <<run, normalizeError(error).code>>) + 1)]

\* The timer of a this.sleep call fires: that handle call returns
SleepDone ==
  /\ sleeping > 0
  /\ ~exited
  /\ sleeping' = sleeping - 1
  /\ lastResult' = IF lastResult.state = "sleeping" /\ sleeping = 1
                     THEN [lastResult EXCEPT !.state = "returned"]
                     ELSE lastResult
  /\ UNCHANGED <<exitOnFatal, errorCount, recoveryAttempts, exited, sleeps,
                 occurrences, actionsRun, nHandles, fatalChecks, runs>>
  /\ UNCHANGED notErrVars

\* reset(): a new run starts
ResetMutKeepAttempts ==
  /\ ~exited
  /\ errorCount' = 0
  /\ sleeps' = <<>>
  /\ occurrences' = EmptyMap
  /\ actionsRun' = EmptyMap
  /\ UNCHANGED <<exitOnFatal, recoveryAttempts, lastResult, sleeping, exited, nHandles,
                 fatalChecks, runs>>
  /\ UNCHANGED notErrVars

Reset ==
  /\ ~exited
  /\ errorCount' = 0
  /\ recoveryAttempts' = EmptyMap
  /\ sleeps' = <<>>
  /\ occurrences' = EmptyMap
  /\ actionsRun' = EmptyMap
  /\ UNCHANGED <<exitOnFatal, lastResult, sleeping, exited, nHandles, fatalChecks, runs>>
  /\ UNCHANGED notErrVars

\* static isFatal(error)
isFatalMutNotRecoverable(error) ==
  instanceOf(error.cls, "ArticleExtractionError") /\ ~error.recoverable

isFatal(error) ==
  \/ instanceOf(error.cls, "PaywallDetectedError")
  \/ instanceOf(error.cls, "CookieExpiredError")
  \/ instanceOf(error.cls, "ConfigValidationError")

\* ErrorHandler.isFatal(error) is called
IsFatalCall(error) ==
  /\ Len(fatalChecks) < MaxFatalChecks
  /\ fatalChecks' = Append(fatalChecks, [error |-> error, result |-> isFatal(error)])
  /\ UNCHANGED <<handlerVars, runs>>
  /\ UNCHANGED notErrVars

\* new ErrorHandler(options)
HandlerFresh(exitOpt) ==
  /\ exitOnFatal = exitOpt
  /\ errorCount = 0
  /\ recoveryAttempts = EmptyMap
  /\ lastResult = NoResult
  /\ sleeping = 0
  /\ exited = FALSE
  /\ sleeps = <<>>
  /\ occurrences = EmptyMap
  /\ actionsRun = EmptyMap
  /\ nHandles = 0
  /\ fatalChecks = <<>>
  /\ runs = NoRuns

InitErr == \E exitOpt \in BOOLEAN : HandlerFresh(exitOpt)

NextHandler ==
  \/ \E error \in Errors : Handle(error)
  \/ SleepDone
  \/ Reset

NextFatal == \E error \in Errors : IsFatalCall(error)

\* Several pipeline runs of one process reporting their errors
NextRuns ==
  \/ \E run \in Runs, error \in RunErrors : HandleError(run, error)
  \/ SleepDone

NextErr == NextHandler \/ NextFatal \/ NextRuns

-----------------------------------------------------------------------------
(***************************************************************************)
(* Image acquisition of the runs of one batch (extractSingleArticle called *)
(* by batchExtract for several URLs at once)                               *)
(***************************************************************************)

\* The image URLs the articles of a batch show
ImageUrls == {"https://cdn.example.com/logo.png", "https://cdn.example.com/photo.jpg"}

\* const tempImagesDir = './temp_images', the same for every run
tempImagesDir(run) == "./temp_images"

\* generateFilename(url, index): `image-${index}-${md5(url).substring(0, 8)}${ext}`
generateFilename(url, index) == <<"image-", index, <<"md5", url>>>>

\* path.join(outputDir, filename)
localPath(outputDir, url, index) == <<outputDir, generateFilename(url, index)>>

\* path.join(outputDir, `temp-${filename}`)
tempPath(outputDir, url, index) == <<outputDir, "temp-", generateFilename(url, index)>>

IdleAcq == [pc |-> "idle", url |-> "", hash |-> <<>>]

\* The file operations: each notes in `log` when the file it touches was
\* last written by another run
writeFile(d, path, run, bytes) ==
  [q \in DOMAIN d \cup {path} |->
     IF q = path THEN [writer |-> run, bytes |-> bytes] ELSE d[q]]

unlink(d, path) == [q \in DOMAIN d \ {path} |-> d[q]]

touched(d, path, run, kind) ==
  IF path \in DOMAIN d /\ d[path].writer # run
    THEN {<<kind, run, d[path].writer>>}
    ELSE {}

\* extractSingleArticle reaches ImageDownloader.downloadImages for its first
\* image (index 0): processImage starts the download
AcqStart(run, url) ==
  /\ acq[run].pc = "idle"
  /\ acq' = [acq EXCEPT ![run] = [IdleAcq EXCEPT !.pc = "downloading", !.url = url]]
  /\ UNCHANGED <<disk, foreign>>
  /\ UNCHANGED notBatchVars

\* await downloadImage resolves; fs.writeFileSync(tempPath, buffer)
AcqDownloaded(run, bytes) ==
  /\ acq[run].pc = "downloading"
  /\ LET path == tempPath(tempImagesDir(run), acq[run].url, 0)
     IN /\ disk' = writeFile(disk, path, run, bytes)
        /\ foreign' = foreign \cup touched(disk, path, run, "overwritten")
  /\ acq' = [acq EXCEPT ![run].pc = "hashing"]
  /\ UNCHANGED notBatchVars

\* await hashFile(tempPath): the stream reads whatever is at tempPath now and
\* errors when nothing is
AcqHashed(run) ==
  /\ acq[run].pc = "hashing"
  /\ LET path == tempPath(tempImagesDir(run), acq[run].url, 0)
     IN IF path \in DOMAIN disk
          THEN /\ acq' = [acq EXCEPT ![run].pc = "optimizing",
                                     ![run].hash = hashFile(disk[path].bytes)]
               /\ foreign' = foreign \cup touched(disk, path, run, "read")
          ELSE /\ acq' = [acq EXCEPT ![run].pc = "failed"]
               /\ UNCHANGED foreign
  /\ UNCHANGED disk
  /\ UNCHANGED notBatchVars

\* await optimizeImage(tempPath, localPath): sharp reads tempPath and writes
\* localPath, and fails when tempPath is gone
AcqOptimized(run) ==
  /\ acq[run].pc = "optimizing"
  /\ LET from == tempPath(tempImagesDir(run), acq[run].url, 0)
         to == localPath(tempImagesDir(run), acq[run].url, 0)
     IN IF from \in DOMAIN disk
          THEN /\ disk' = writeFile(disk, to, run, disk[from].bytes)
               /\ foreign' = foreign \cup touched(disk, from, run, "read")
                                     \cup touched(disk, to, run, "overwritten")
               /\ acq' = [acq EXCEPT ![run].pc = "cleaning"]
          ELSE /\ acq' = [acq EXCEPT ![run].pc = "failed"]
               /\ UNCHANGED <<disk, foreign>>
  /\ UNCHANGED notBatchVars

\* fs.unlinkSync(tempPath), which throws when tempPath is gone, and return
AcqCleaned(run) ==
  /\ acq[run].pc = "cleaning"
  /\ LET path == tempPath(tempImagesDir(run), acq[run].url, 0)
     IN IF path \in DOMAIN disk
          THEN /\ disk' = unlink(disk, path)
               /\ foreign' = foreign \cup touched(disk, path, run, "deleted")
               /\ acq' = [acq EXCEPT ![run].pc = "done"]
          ELSE /\ acq' = [acq EXCEPT ![run].pc = "failed"]
               /\ UNCHANGED <<disk, foreign>>
  /\ UNCHANGED notBatchVars

\* Before batchExtract starts its runs, ./temp_images empty
BatchFresh ==
  /\ disk = EmptyMap
  /\ acq = [run \in Runs |-> IdleAcq]
  /\ foreign = {}

NextBatch ==
  \/ \E run \in Runs, url \in ImageUrls : AcqStart(run, url)
  \/ \E run \in Runs, bytes \in Contents : AcqDownloaded(run, bytes)
  \/ \E run \in Runs : AcqHashed(run)
  \/ \E run \in Runs : AcqOptimized(run)
  \/ \E run \in Runs : AcqCleaned(run)

-----------------------------------------------------------------------------
(***************************************************************************)
(* BrowserEngine: loadPageWithCookies and detectPaywall                    *)
(***************************************************************************)

\* retries: z.number().min(1).optional().default(3)
DefaultRetries == 3

\* Date.now() at the time cookies are looked at, in ms
Now == 2000

\* cookie.expires in ms: 0 stands for undefined (a session cookie), 1000 lies
\* before Now and 3000 after it
ExpiryTimes == {0, 1000, 3000}

Cookies == [name : {"session"}, expires : ExpiryTimes]

CookieLists == SeqsUpTo(Cookies, MaxCookies)

\* CookieManager.detectExpiredCookies: the cookies whose expires is set and
\* lies before now
detectExpiredCookies(cookies) ==
  SelectSeq(cookies, LAMBDA cookie : cookie.expires # 0 /\ cookie.expires < Now)

\* options.retries || config.browser.retries; 0 stands for an option or
\* config entry that is not given, and the config schema fills in its default
retriesOf(optRetries, cfgRetries) ==
  IF optRetries # 0 THEN optRetries
  ELSE IF cfgRetries # 0 THEN cfgRetries ELSE DefaultRetries

\* One loadPageWithCookies call: its position, the options and config it
\* works with (0: not given), retries, the loop variable attempt, and as history the page.goto calls
\* made, the attempt whose goto succeeded, the gotos that failed, the cookies
\* handed to page.setCookie, whether the page is open, and what was thrown.
IdleLoad == [pc |-> "idle", optRetries |-> 0, cfgRetries |-> 0, retries |-> 0,
             antiDetection |-> FALSE, waits |-> FALSE,
             cookies |-> <<>>, attempt |-> 0, gotos |-> 0, okAttempt |-> 0,
             failed |-> 0, injected |-> <<>>, pageOpen |-> FALSE, thrown |-> "none"]

\* loadPageWithCookies(options): await this.launch(), await browser.newPage()
StartedLoad(cookies, optRetries, cfgRetries, antiDetection, waits) ==
  [IdleLoad EXCEPT !.pc = "launching",
                   !.optRetries = optRetries, !.cfgRetries = cfgRetries,
                   !.retries = retriesOf(optRetries, cfgRetries),
                   !.antiDetection = antiDetection, !.waits = waits,
                   !.cookies = cookies]

LoadCall(cookies, optRetries, cfgRetries, antiDetection, waits) ==
  /\ load.pc = "idle"
  /\ load' = StartedLoad(cookies, optRetries, cfgRetries, antiDetection, waits)
  /\ UNCHANGED paywall
  /\ UNCHANGED notBrowserVars

\* puppeteer.launch or browser.newPage rejects: thrown before the try block
LaunchFail ==
  /\ load.pc = "launching"
  /\ load' = [load EXCEPT !.pc = "failed", !.thrown = "launch"]
  /\ UNCHANGED paywall
  /\ UNCHANGED notBrowserVars

\* for (let attempt = 1; attempt <= retries; attempt++): the loop entered at
\* `attempt`; with antiDetection a retry first waits in addRandomDelay
GotoLoop(l, attempt) ==
  IF attempt > l.retries
    THEN [l EXCEPT !.pc = IF l.waits THEN "waiting" ELSE "loaded", !.attempt = attempt]
  ELSE IF l.antiDetection /\ attempt > 1
    THEN [l EXCEPT !.pc = "retrying", !.attempt = attempt]
    ELSE [l EXCEPT !.pc = "loading", !.attempt = attempt, !.gotos = l.gotos + 1]

\* The page is there: setDefaultTimeout, then setupAntiDetection when enabled
\* and injectCookies when cookies were given (both awaited), else the loop
PageCreated ==
  /\ load.pc = "launching"
  /\ LET l == [load EXCEPT !.pageOpen = TRUE] IN
     load' = IF l.antiDetection \/ Len(l.cookies) > 0
               THEN [l EXCEPT !.pc = "preparing"]
               ELSE GotoLoop(l, 1)
  /\ UNCHANGED paywall
  /\ UNCHANGED notBrowserVars

\* setupAntiDetection and injectCookies are done: page.setCookie was given
\* every cookie of options.cookies; the navigation loop starts
Prepared ==
  /\ load.pc = "preparing"
  /\ load' = GotoLoop([load EXCEPT !.injected = load.cookies], 1)
  /\ UNCHANGED paywall
  /\ UNCHANGED notBrowserVars

\* setupAntiDetection or page.setCookie rejects: catch, page.close(), throw
PrepareFail ==
  /\ load.pc = "preparing"
  /\ load' = [load EXCEPT !.pc = "failed", !.pageOpen = FALSE, !.thrown = "setup"]
  /\ UNCHANGED paywall
  /\ UNCHANGED notBrowserVars

\* addRandomDelay(500, 2000) is over: page.goto for this attempt
RetryDelayDone ==
  /\ load.pc = "retrying"
  /\ load' = [load EXCEPT !.pc = "loading", !.gotos = load.gotos + 1]
  /\ UNCHANGED paywall
  /\ UNCHANGED notBrowserVars

\* page.goto resolves: break
OnGotoOk(l) ==
  [l EXCEPT !.okAttempt = l.attempt, !.pc = IF l.waits THEN "waiting" ELSE "loaded"]

GotoOk ==
  /\ load.pc = "loading"
  /\ load' = OnGotoOk(load)
  /\ UNCHANGED paywall
  /\ UNCHANGED notBrowserVars

\* page.goto rejects: if (attempt === retries) throw error (outer catch:
\* page.close(), throw), else the next attempt
OnGotoFailMutGiveUp(l) ==
  [l EXCEPT !.failed = l.failed + 1, !.pc = "failed", !.pageOpen = FALSE,
            !.thrown = "navigation"]

OnGotoFail(l) ==
  LET f == [l EXCEPT !.failed = l.failed + 1] IN
  IF l.attempt = l.retries
    THEN [f EXCEPT !.pc = "failed", !.pageOpen = FALSE, !.thrown = "navigation"]
    ELSE GotoLoop(f, l.attempt + 1)

GotoFail ==
  /\ load.pc = "loading"
  /\ load' = OnGotoFail(load)
  /\ UNCHANGED paywall
  /\ UNCHANGED notBrowserVars

\* page.waitForSelector / page.waitForNavigation resolves: return page
WaitOk ==
  /\ load.pc = "waiting"
  /\ load' = [load EXCEPT !.pc = "loaded"]
  /\ UNCHANGED paywall
  /\ UNCHANGED notBrowserVars

\* page.waitForSelector / page.waitForNavigation rejects: catch, page.close(), throw
WaitFail ==
  /\ load.pc = "waiting"
  /\ load' = [load EXCEPT !.pc = "failed", !.pageOpen = FALSE, !.thrown = "wait"]
  /\ UNCHANGED paywall
  /\ UNCHANGED notBrowserVars

NextLoadSteps ==
  \/ LaunchFail
  \/ PageCreated
  \/ Prepared
  \/ PrepareFail
  \/ RetryDelayDone
  \/ GotoOk
  \/ GotoFail
  \/ WaitOk
  \/ WaitFail

\* One loadPageWithCookies call of any caller
NextLoad ==
  \/ \E cookies \in CookieLists, optRetries \in 0..MaxRetries,
        cfgRetries \in 0..MaxRetries, antiDetection \in BOOLEAN, waits \in BOOLEAN :
       LoadCall(cookies, optRetries, cfgRetries, antiDetection, waits)
  \/ NextLoadSteps

\* The rendered HTML of a page, as a sequence of pieces of text
HtmlPieces == {"Subscribe now", "LOG IN", "metered", "modal", "close", "story"}

Htmls == SeqsUpTo(HtmlPieces, MaxHtml)

\* The words of a piece of text, in lower case (the patterns carry the i flag)
lowerWords(piece) ==
  CASE piece = "Subscribe now" -> <<"subscribe", "now">>
    [] piece = "LOG IN" -> <<"log", "in">>
    [] OTHER -> <<piece>>

\* /subscribe|sign\s*in|log\s*in|paywall/i.test(content)
matchesFirstPattern(content) ==
  \E k \in 1..Len(content) :
    LET w == lowerWords(content[k]) IN
    \/ \E m \in 1..Len(w) : w[m] \in {"subscribe", "signin", "login", "paywall"}
    \/ \E m \in 1..(Len(w) - 1) : w[m] \in {"sign", "log"} /\ w[m + 1] = "in"

\* /metered|wall|modal.*close/i.test(content)
matchesSecondPattern(content) ==
  \/ \E k \in 1..Len(content) :
       \E m \in 1..Len(lowerWords(content[k])) :
         lowerWords(content[k])[m] \in {"metered", "wall", "paywall"}
  \/ \E k, m \in 1..Len(content) :
       /\ k < m
       /\ "modal" \in Range(lowerWords(content[k]))
       /\ "close" \in Range(lowerWords(content[m]))

\* softPaywallPatterns.some(p => p.test(content))
somePatternMatches(content) == matchesFirstPattern(content) \/ matchesSecondPattern(content)

\* if (bodyText.length < 500)
BodyThreshold == 500

\* document.body.innerText.length of the pages looked at
BodyLengths == {0, 200, 499, 500, 501, 4000}

\* What detectPaywall can find: page.content() and page.evaluate(...) each
\* resolve or reject
Pages == [content : Htmls, bodyLength : BodyLengths,
          contentFails : BOOLEAN, evaluateFails : BOOLEAN]

\* detectPaywall(page): the verdict
blockedMutAtMost(bodyLength) == bodyLength <= BodyThreshold

blocked(bodyLength) == bodyLength < BodyThreshold

detectPaywall(page) ==
  IF page.contentFails THEN "none"
  ELSE IF somePatternMatches(page.content)
    THEN IF page.evaluateFails THEN "none"
         ELSE IF blocked(page.bodyLength) THEN "soft-overlay" ELSE "none"
    ELSE "none"

NoPaywallCall == [pc |-> "idle", page |-> <<>>, evaluated |-> FALSE, verdict |-> "none"]

\* detectPaywall(page) called: await page.content()
DetectCall(page) ==
  /\ paywall.pc = "idle"
  /\ paywall' = [NoPaywallCall EXCEPT !.pc = "content", !.page = page]
  /\ UNCHANGED load
  /\ UNCHANGED notBrowserVars

\* page.content() settled: rejected (catch: NONE), no pattern matches (NONE),
\* or await page.evaluate(() => document.body.innerText)
ContentSettled ==
  /\ paywall.pc = "content"
  /\ paywall' =
       IF ~paywall.page.contentFails /\ somePatternMatches(paywall.page.content)
         THEN [paywall EXCEPT !.pc = "evaluate", !.evaluated = TRUE]
         ELSE [paywall EXCEPT !.pc = "returned", !.verdict = detectPaywall(paywall.page)]
  /\ UNCHANGED load
  /\ UNCHANGED notBrowserVars

\* page.evaluate settled: the verdict is returned
EvaluateSettled ==
  /\ paywall.pc = "evaluate"
  /\ paywall' = [paywall EXCEPT !.pc = "returned", !.verdict = detectPaywall(paywall.page)]
  /\ UNCHANGED load
  /\ UNCHANGED notBrowserVars

NextPaywall ==
  \/ \E page \in Pages : DetectCall(page)
  \/ ContentSettled
  \/ EvaluateSettled

BrowserFresh ==
  /\ load = IdleLoad
  /\ paywall = NoPaywallCall

NextBrowser == NextLoad \/ NextPaywall

-----------------------------------------------------------------------------
(***************************************************************************)
(* extractSingleArticle: one pipeline run                                  *)
(***************************************************************************)

MaxPageImages == 2

\* options.cookies: no file given, a file that cannot be read or parsed, or a
\* file holding a list of cookies
NoCookieFile == [given |-> FALSE, readable |-> FALSE, cookies |-> <<>>]

CookieFiles ==
  {NoCookieFile, [given |-> TRUE, readable |-> FALSE, cookies |-> <<>>]}
    \cup {[given |-> TRUE, readable |-> TRUE, cookies |-> cs] : cs \in SeqsUpTo(Cookies, 1)}

\* config.browser.retries of the runs looked at: not given (the default) or 2
ConfiguredRetries == {0, 2}

\* summaryResult = null
NoSummary == "null"

\* No article saved
NotSaved == [images |-> 0, summary |-> "none"]

\* One run: its position, options.images and options.summary, the cookies it
\* loaded, its browser ("none" | "open" | "closed"), the number of images
\* found (pageImages) and acquired (images), summaryResult, what
\* saveCompleteArticle was given, and as history the service methods called,
\* the stages that failed and the stage whose error the run threw.
IdleExtract == [pc |-> "idle", images |-> TRUE, summary |-> TRUE, cookies |-> <<>>,
                browser |-> "none", pageImages |-> 0, acquired |-> 0,
                summaryResult |-> NoSummary, saved |-> NotSaved,
                called |-> {}, failures |-> {}, thrown |-> "none"]

\* The method `name` of a service is called
Calls(x, name) == [x EXCEPT !.called = x.called \cup {name}]

\* An error of `stage` reaches the catch block of extractSingleArticle:
\* browser.close() when there is a browser, then throw error
AbortMutNoClose(x, stage) ==
  [x EXCEPT !.failures = x.failures \cup {stage}, !.thrown = stage, !.pc = "aborted"]

Abort(x, stage) ==
  LET f == [x EXCEPT !.failures = x.failures \cup {stage}, !.thrown = stage] IN
  IF x.browser = "none"
    THEN [f EXCEPT !.pc = "aborted"]
    ELSE [Calls(f, "browser.close") EXCEPT !.pc = "cleanup"]

\* Step 6: FileOutput.saveCompleteArticle(metadata, markdown,
\* summaryResult || {summary: '[Summarization skipped]', ...}, images)
SaveStep(x) == [Calls(x, "saveCompleteArticle") EXCEPT !.pc = "saving"]

\* Step 5: with options.summary !== false, new OllamaClient() and
\* await ollamaClient.isRunning(); else step 6
SummaryStep(x) ==
  IF x.summary
    THEN [Calls(x, "isRunning") EXCEPT !.pc = "pinging"]
    ELSE SaveStep(x)

\* Step 4: with options.images !== false,
\* await ImageExtractor.extractDownloadableImages(...); else step 5
ImageStep(x) ==
  IF x.images
    THEN [Calls(x, "extractDownloadableImages") EXCEPT !.pc = "discovering"]
    ELSE SummaryStep(x)

\* extractSingleArticle(url, options, spinner): step 1 loads the cookies
\* (synchronously), step 2 creates the browser engine and starts
\* loadPageWithCookies({url, cookies, timeout: 30000})
ExtractCall(file, images, summary, cfgRetries, antiDetection) ==
  /\ extract.pc = "idle"
  /\ load.pc = "idle"
  /\ LET x == [IdleExtract EXCEPT !.images = images, !.summary = summary] IN
     IF file.given /\ ~file.readable
       THEN /\ extract' = Abort(Calls(x, "loadCookiesFromFile"), "cookies")
            /\ UNCHANGED load
       ELSE /\ extract' =
                 [Calls(IF file.given THEN Calls(x, "loadCookiesFromFile") ELSE x,
                        "loadPageWithCookies")
                    EXCEPT !.pc = "loadingPage", !.cookies = file.cookies,
                           !.browser = "open"]
            /\ load' = StartedLoad(file.cookies, 0, cfgRetries, antiDetection, FALSE)
  /\ UNCHANGED notCliVars

\* loadPageWithCookies returned the page: step 3,
\* await ContentExtractor.identifyArticleContainer(page)
PageLoaded ==
  /\ extract.pc = "loadingPage"
  /\ load.pc = "loaded"
  /\ extract' = [Calls(extract, "identifyArticleContainer") EXCEPT !.pc = "identifying"]
  /\ UNCHANGED load
  /\ UNCHANGED notCliVars

\* loadPageWithCookies threw
PageLoadFailed ==
  /\ extract.pc = "loadingPage"
  /\ load.pc = "failed"
  /\ extract' = Abort(extract, "load")
  /\ UNCHANGED load
  /\ UNCHANGED notCliVars

\* identifyArticleContainer resolved (it catches the errors of its selector
\* tests itself): await ContentExtractor.extractContent(...)
IdentifySettled ==
  /\ extract.pc = "identifying"
  /\ extract' = [Calls(extract, "extractContent") EXCEPT !.pc = "extracting"]
  /\ UNCHANGED load
  /\ UNCHANGED notCliVars

\* extractContent settled: on to step 4
ExtractContentSettled(ok) ==
  /\ extract.pc = "extracting"
  /\ extract' = IF ok THEN ImageStep(extract) ELSE Abort(extract, "content")
  /\ UNCHANGED load
  /\ UNCHANGED notCliVars

\* extractDownloadableImages resolved with n images: with n > 0,
\* await ImageDownloader.downloadImages(pageImages, './temp_images')
DiscoverySettled(n) ==
  /\ extract.pc = "discovering"
  /\ extract' =
       IF n > 0
         THEN [Calls(extract, "downloadImages") EXCEPT !.pc = "downloading",
                                                       !.pageImages = n]
         ELSE SummaryStep(extract)
  /\ UNCHANGED load
  /\ UNCHANGED notCliVars

\* extractDownloadableImages rejected: nothing catches it before the catch
\* block of the run
OnImageStageFail(x) == Abort(x, "images")

DiscoveryFailed ==
  /\ extract.pc = "discovering"
  /\ extract' = OnImageStageFail(extract)
  /\ UNCHANGED load
  /\ UNCHANGED notCliVars

\* downloadImages returned k of the images (the others failed or were
\* duplicates): on to step 5
DownloadReturned(k) ==
  /\ extract.pc = "downloading"
  /\ k <= extract.pageImages
  /\ extract' = SummaryStep([extract EXCEPT !.acquired = k])
  /\ UNCHANGED load
  /\ UNCHANGED notCliVars

\* downloadImages threw (ensureDir could not create ./temp_images)
DownloadRaised ==
  /\ extract.pc = "downloading"
  /\ extract' = OnImageStageFail(extract)
  /\ UNCHANGED load
  /\ UNCHANGED notCliVars

\* isRunning answered: true, await ollamaClient.generateSummary(...); false,
\* a warning ('Ollama server not running - skipping summary') and step 6
PingSettled(running) ==
  /\ extract.pc = "pinging"
  /\ extract' =
       IF running
         THEN [Calls(extract, "generateSummary") EXCEPT !.pc = "summarizing"]
         ELSE SaveStep([extract EXCEPT !.failures = extract.failures \cup {"unreachable"}])
  /\ UNCHANGED load
  /\ UNCHANGED notCliVars

\* generateSummary resolved
SummaryOk ==
  /\ extract.pc = "summarizing"
  /\ extract' = SaveStep([extract EXCEPT !.summaryResult = "summary"])
  /\ UNCHANGED load
  /\ UNCHANGED notCliVars

\* generateSummary rejected: the inner catch warns and the run goes on
OnSummaryFailMutRethrow(x) == Abort(x, "summary")

OnSummaryFail(x) == SaveStep([x EXCEPT !.failures = x.failures \cup {"summary"}])

SummaryFailed ==
  /\ extract.pc = "summarizing"
  /\ extract' = OnSummaryFail(extract)
  /\ UNCHANGED load
  /\ UNCHANGED notCliVars

\* saveCompleteArticle settled: resolved, if (browser) await browser.close()
SaveSettled(ok) ==
  /\ extract.pc = "saving"
  /\ extract' =
       IF ok
         THEN [Calls(extract, "browser.close")
                 EXCEPT !.pc = "closing",
                        !.saved = [images |-> extract.acquired,
                                   summary |-> IF extract.summaryResult = NoSummary
                                                 THEN "[Summarization skipped]"
                                                 ELSE extract.summaryResult]]
         ELSE Abort(extract, "save")
  /\ UNCHANGED load
  /\ UNCHANGED notCliVars

\* browser.close() of the normal path settled: resolved, the run prints its
\* report and returns; rejected, the catch block tries browser.close() again
CloseSettled(ok) ==
  /\ extract.pc = "closing"
  /\ extract' = IF ok THEN [extract EXCEPT !.pc = "done", !.browser = "closed"]
                      ELSE Abort(extract, "close")
  /\ UNCHANGED load
  /\ UNCHANGED notCliVars

\* browser.close() of the catch block settled (an error is ignored): throw error
CleanupSettled(ok) ==
  /\ extract.pc = "cleanup"
  /\ extract' = [extract EXCEPT !.pc = "aborted",
                                !.browser = IF ok THEN "closed" ELSE extract.browser,
                                !.failures = IF ok THEN extract.failures
                                                   ELSE extract.failures \cup {"cleanup"}]
  /\ UNCHANGED load
  /\ UNCHANGED notCliVars

\* The steps of the run's loadPageWithCookies call
LoadStepOfRun ==
  /\ extract.pc = "loadingPage"
  /\ NextLoadSteps

ExtractFresh == extract = IdleExtract

NextExtract ==
  \/ \E file \in CookieFiles, images \in BOOLEAN, summary \in BOOLEAN,
        cfgRetries \in ConfiguredRetries, antiDetection \in BOOLEAN :
       ExtractCall(file, images, summary, cfgRetries, antiDetection)
  \/ LoadStepOfRun
  \/ PageLoaded
  \/ PageLoadFailed
  \/ IdentifySettled
  \/ \E ok \in BOOLEAN : ExtractContentSettled(ok)
  \/ \E n \in 0..MaxPageImages : DiscoverySettled(n)
  \/ DiscoveryFailed
  \/ \E k \in 0..MaxPageImages : DownloadReturned(k)
  \/ DownloadRaised
  \/ \E running \in BOOLEAN : PingSettled(running)
  \/ SummaryOk
  \/ SummaryFailed
  \/ \E ok \in BOOLEAN : SaveSettled(ok)
  \/ \E ok \in BOOLEAN : CloseSettled(ok)
  \/ \E ok \in BOOLEAN : CleanupSettled(ok)

-----------------------------------------------------------------------------
(***************************************************************************)
(* batchExtract                                                            *)
(***************************************************************************)

\* The characters of the --parallel option values looked at; a string is the
\* sequence of its characters, <<>> also stands for an option not given
OptionChars == {"-", "0", "1", "2", "x"}

ParallelOptions == SeqsUpTo(OptionChars, MaxOptionLen)

digitOf(ch) == CASE ch = "0" -> 0 [] ch = "1" -> 1 [] ch = "2" -> 2 [] OTHER -> -1

NaN == [nan |-> TRUE, value |-> 0]

\* The value of a string of digits read so far (acc) and the rest
RECURSIVE digitsValue(_, _)
digitsValue(acc, rest) ==
  IF rest = <<>> \/ digitOf(Head(rest)) < 0 THEN acc
  ELSE digitsValue(10 * acc + digitOf(Head(rest)), Tail(rest))

\* parseInt(str, 10): an optional sign, then the longest run of digits; NaN
\* when there is no digit
parseInt(str) ==
  LET negative == str # <<>> /\ Head(str) = "-"
      body == IF negative THEN Tail(str) ELSE str
  IN IF body = <<>> \/ digitOf(Head(body)) < 0 THEN NaN
     ELSE [nan |-> FALSE,
           value |-> IF negative THEN 0 - digitsValue(0, body) ELSE digitsValue(0, body)]

\* parseInt(options.parallel || '1', 10) || 1
parallelCountOf(parallel) ==
  LET parsed == parseInt(IF parallel = <<>> THEN <<"1">> ELSE parallel) IN
  IF parsed.nan \/ parsed.value = 0 THEN 1 ELSE parsed.value

\* Array.prototype.slice(from, to) on an array of n elements, as the set of
\* the (1-based) positions it takes: a negative index counts from the end
sliceIndex(k, n) == IF k < 0 THEN Max(n + k, 0) ELSE Min(k, n)

slicePositions(from, to, n) == (sliceIndex(from, n) + 1)..sliceIndex(to, n)

\* One batchExtract call: its position, urls.length, parallelCount, the loop
\* variable i, the URLs (by position) of the current group and those whose
\* run has not settled, and as history how often extractSingleArticle was
\* called per URL, the URLs whose run failed and the largest number of runs
\* in flight.
IdleBx == [pc |-> "idle", readable |-> FALSE, urls |-> 0, parallelCount |-> 0, i |-> 0,
           group |-> {}, inFlight |-> {}, attempts |-> EmptyMap, failed |-> {},
           peak |-> 0]

\* The i that is as good as i for the slices to come: at -urls.length and
\* below every slice(i, i + parallelCount) with a negative parallelCount
\* takes nothing, so an i further down than two more rounds of the loop is
\* kept as the i of two rounds before
normalIndex(b, k) ==
  IF b.parallelCount < 0 /\ k < 0 - b.urls + 2 * b.parallelCount
    THEN k - 2 * b.parallelCount
    ELSE k

\* for (let i = ...; i < urls.length; i += parallelCount): the loop entered
\* with i = k; the runs of urls.slice(i, i + parallelCount) are started and
\* awaited together
BatchLoop(b, k) ==
  IF k >= b.urls
    THEN [b EXCEPT !.pc = "done", !.i = k, !.group = {}]
    ELSE LET batchOf == slicePositions(k, k + b.parallelCount, b.urls) IN
         [b EXCEPT !.pc = "running", !.i = normalIndex(b, k),
                   !.group = batchOf, !.inFlight = batchOf,
                   !.attempts = [u \in DOMAIN b.attempts \cup batchOf |->
                                   getOrZero(b.attempts, u) + (IF u \in batchOf THEN 1 ELSE 0)],
                   !.peak = Max(b.peak, Cardinality(batchOf))]

\* batchExtract(filePath, options, spinner): await fs.readFile(filePath)
BatchExtractCall(readable, n, parallel) ==
  /\ bx.pc = "idle"
  /\ bx' = [IdleBx EXCEPT !.pc = "reading", !.readable = readable,
                          !.urls = IF readable THEN n ELSE 0,
                          !.parallelCount = parallelCountOf(parallel)]
  /\ UNCHANGED notBxVars

\* readFile settled: rejected, or no URL line in the file: spinner.fail and
\* throw; else the loop starts
ReadSettled ==
  /\ bx.pc = "reading"
  /\ bx' = IF ~bx.readable \/ bx.urls = 0
             THEN [bx EXCEPT !.pc = "raised"]
             ELSE BatchLoop(bx, 0)
  /\ UNCHANGED notBxVars

\* The extractSingleArticle promise of URL u settled; a rejection is caught
\* and logged by the .catch of its run
RunSettled(u, ok) ==
  /\ bx.pc = "running"
  /\ u \in bx.inFlight
  /\ bx' = [bx EXCEPT !.inFlight = bx.inFlight \ {u},
                      !.failed = IF ok THEN bx.failed ELSE bx.failed \cup {u}]
  /\ UNCHANGED notBxVars

\* await Promise.all(promises) resumes: i += parallelCount and the loop test
GroupSettled ==
  /\ bx.pc = "running"
  /\ bx.inFlight = {}
  /\ bx' = BatchLoop(bx, bx.i + bx.parallelCount)
  /\ UNCHANGED notBxVars

BxFresh == bx = IdleBx

NextBx ==
  \/ \E readable \in BOOLEAN, n \in 0..MaxUrls, parallel \in ParallelOptions :
       BatchExtractCall(readable, n, parallel)
  \/ ReadSettled
  \/ \E u \in 1..MaxUrls, ok \in BOOLEAN : RunSettled(u, ok)
  \/ GroupSettled

-----------------------------------------------------------------------------
(***************************************************************************)
(* OllamaClient.generateSummaryStream                                      *)
(***************************************************************************)

\* The letters of the text fragments looked at
Letters == {"a", "b"}

\* The values of the response field: strings of up to two letters, ""
\* included (the last object of a stream carries an empty response)
Fragments == SeqsUpTo(Letters, 2)

\* The line the server writes for a JSON object with response field f: the
\* text before the value of the field ("{"), the value, the text after it
\* ("}"), and the newline that ends the line
lineOf(f) == <<"{">> \o f \o <<"}", "\n">>

\* The newline-delimited stream of the objects with the response fields fs
RECURSIVE wireOf(_)
wireOf(fs) == IF fs = <<>> THEN <<>> ELSE lineOf(Head(fs)) \o wireOf(Tail(fs))

\* In-order concatenation of fragments
RECURSIVE concat(_)
concat(fs) == IF fs = <<>> THEN <<>> ELSE Head(fs) \o concat(Tail(fs))

\* String.prototype.trim, for the white space of the stream (newlines)
RECURSIVE trim(_)
trim(str) ==
  IF str = <<>> THEN <<>>
  ELSE IF Head(str) = "\n" THEN trim(Tail(str))
  ELSE IF str[Len(str)] = "\n" THEN trim(SubSeq(str, 1, Len(str) - 1))
  ELSE str

\* str.split('\n'): the pieces between the newlines; cur is the piece read
\* so far
RECURSIVE split(_, _)
split(cur, rest) ==
  IF rest = <<>> THEN <<cur>>
  ELSE IF Head(rest) = "\n" THEN <<cur>> \o split(<<>>, Tail(rest))
  ELSE split(Append(cur, Head(rest)), Tail(rest))

\* JSON.parse(line) does not throw: the line is one whole object
parses(line) ==
  /\ Len(line) >= 2
  /\ line[1] = "{"
  /\ line[Len(line)] = "}"
  /\ \A k \in 2..(Len(line) - 1) : line[k] \in Letters

\* json.response of a line that parses
responseOf(line) == SubSeq(line, 2, Len(line) - 1)

\* The inner loop over the lines of one chunk: a line that does not parse is
\* skipped, a response that is not empty is yielded
RECURSIVE yieldsOf(_)
yieldsOf(lines) ==
  IF lines = <<>> THEN <<>>
  ELSE LET line == Head(lines) IN
       (IF parses(line) /\ responseOf(line) # <<>> THEN <<responseOf(line)>> ELSE <<>>)
         \o yieldsOf(Tail(lines))

\* chunk.toString().trim().split('\n') and the loop over the lines
yieldsOfChunk(chunk) == yieldsOf(split(<<>>, trim(chunk)))

\* One generateSummaryStream call: its position, the response fields of the
\* objects the server sends, the part of the stream that has not arrived,
\* the fragments yielded so far, and as history whether some chunk ended
\* inside a line.
IdleStream == [pc |-> "idle", sent |-> <<>>, rest |-> <<>>, yielded |-> <<>>,
               cut |-> FALSE]

\* generateSummaryStream(text, options): await this.client.post(...,
\* {responseType: 'stream'}) resolved with the stream of the objects `sent`
StreamCall(sent) ==
  /\ stream.pc = "idle"
  /\ stream' = [IdleStream EXCEPT !.pc = "streaming", !.sent = sent, !.rest = wireOf(sent)]
  /\ UNCHANGED notStreamVars

\* The post is rejected: throw new Error('Stream summarization failed: ...')
StreamPostFail ==
  /\ stream.pc = "idle"
  /\ stream' = [IdleStream EXCEPT !.pc = "thrown"]
  /\ UNCHANGED notStreamVars

\* for await (const chunk of response.data): the next n characters of the
\* stream arrive as one chunk and its lines are worked through
ChunkArrives(n) ==
  /\ stream.pc = "streaming"
  /\ n <= Len(stream.rest)
  /\ stream' = [stream EXCEPT
                  !.rest = SubSeq(stream.rest, n + 1, Len(stream.rest)),
                  !.yielded = stream.yielded \o yieldsOfChunk(SubSeq(stream.rest, 1, n)),
                  !.cut = stream.cut \/ stream.rest[n] # "\n"]
  /\ UNCHANGED notStreamVars

\* The stream ends: the generator returns
StreamEnds ==
  /\ stream.pc = "streaming"
  /\ stream.rest = <<>>
  /\ stream' = [stream EXCEPT !.pc = "done"]
  /\ UNCHANGED notStreamVars

\* The stream fails while it is read: the outer catch throws
StreamBreaks ==
  /\ stream.pc = "streaming"
  /\ stream.rest # <<>>
  /\ stream' = [stream EXCEPT !.pc = "thrown"]
  /\ UNCHANGED notStreamVars

StreamFresh == stream = IdleStream

NextStream ==
  \/ \E sent \in SeqsUpTo(Fragments, MaxObjects) : StreamCall(sent)
  \/ StreamPostFail
  \/ \E n \in 1..(5 * MaxObjects) : ChunkArrives(n)
  \/ StreamEnds
  \/ StreamBreaks

-----------------------------------------------------------------------------
(***************************************************************************)
(* Claims about ImageDownloader.downloadImages (checked under SpecImg)     *)
(***************************************************************************)

Fulfilled(p) == p <= nImages /\ proc[p].pc = "fulfilled"

Rejected(p) == p <= nImages /\ proc[p].pc = "rejected"

\* C1: no two LocalImages in the list built (and finally returned) by one
\* downloadImages call have the same content hash, whatever the inputs,
\* maxConcurrent >= 1 and the pattern of successes, failures and completions.
C1_NoDuplicateHashes ==
  \A a, b \in 1..Len(results) : a # b => results[a].hash # results[b].hash

\* C1 witness: a call returned at least two images although two successfully
\* processed images had identical bytes.
C1_Witness ==
  /\ dlState = "returned"
  /\ Len(results) >= 2
  /\ \E p, q \in Positions : p < q /\ Fulfilled(p) /\ Fulfilled(q)
                             /\ proc[p].hash = proc[q].hash

\* The k-th consecutive chunk of at most mc positions of a list of n images
Chunk(k, mc, n) == [j \in 1..(Min(k * mc, n) - (k - 1) * mc) |-> (k - 1) * mc + j]

\* C7: the images are processed in consecutive batches of at most
\* maxConcurrent in input order; nothing of batch k+1 is started before every
\* download of batch k has settled, so at most maxConcurrent downloads are in
\* flight; 5 images with maxConcurrent = 2 run as [1,2],[3,4],[5].
C7_BatchesInSequence ==
  /\ \A k \in 1..Len(batchLog) : batchLog[k] = Chunk(k, maxConcurrent, nImages)
  /\ Cardinality(InFlight(proc)) <= maxConcurrent
  /\ peakInFlight <= maxConcurrent
  /\ InFlight(proc) \subseteq Range(batch)
  /\ dlState = "running" =>
       /\ batch = Chunk(Len(batchLog), maxConcurrent, nImages)
       /\ \A p \in Positions :
            /\ (p <= nImages /\ p < Head(batch)) => proc[p].pc \in SettledPcs
            /\ p > batch[Len(batch)] => proc[p].pc = "idle"
  /\ dlState = "returned" =>
       /\ Len(batchLog) * maxConcurrent >= nImages
       /\ (Len(batchLog) - 1) * maxConcurrent < nImages \/ nImages = 0
       /\ \A p \in 1..nImages : proc[p].pc \in SettledPcs
  /\ (dlState = "returned" /\ nImages = 5 /\ maxConcurrent = 2) =>
       batchLog = << <<1, 2>>, <<3, 4>>, <<5>> >>

\* C7 witness: 5 images with maxConcurrent = 2 ran to the end with two
\* downloads in flight at the same time.
C7_Witness ==
  /\ dlState = "returned"
  /\ nImages = 5
  /\ maxConcurrent = 2
  /\ peakInFlight = 2
  /\ Len(batchLog) = 3

\* The positions downloadImages is to keep: the successes whose hash no earlier
\* success has.
KeptPositions ==
  {p \in 1..nImages :
     /\ proc[p].pc = "fulfilled"
     /\ \A q \in 1..(p - 1) : ~(proc[q].pc = "fulfilled" /\ proc[q].hash = proc[p].hash)}

\* C8: whatever order the downloads of a batch complete in, the returned list
\* is the input-ordered list of the successes with every later hash-duplicate
\* removed: kept images are in input order and each hash among the successes
\* is kept exactly once, for its earliest image (also across batches).
C8_InputOrderEarliestKept ==
  /\ \A a, b \in 1..Len(results) : a < b => results[a].index < results[b].index
  /\ dlState = "returned" =>
       /\ {results[k].index + 1 : k \in 1..Len(results)} = KeptPositions
       /\ Len(results) = Cardinality(KeptPositions)
       /\ \A k \in 1..Len(results) :
            /\ results[k].hash = proc[results[k].index + 1].hash
            /\ results[k].localPath = localPathOf(results[k].index + 1)

\* C8 witness: a call returned two or more images after a promise settled
\* before an earlier one of its batch, and a duplicate from a later batch was
\* dropped.
C8_Witness ==
  /\ dlState = "returned"
  /\ outOfOrder
  /\ Len(results) >= 2
  /\ \E p, q \in 1..nImages :
       /\ p + maxConcurrent <= q
       /\ Fulfilled(p) /\ Fulfilled(q) /\ proc[p].hash = proc[q].hash

\* C9: downloadImages never fails as a whole on per-image failures: once
\* processImage promises exist the call does not raise, and the images whose
\* processing failed are simply not in the result.
C9_NeverFailsAsAWhole ==
  /\ dlState = "raised" => \A p \in Positions : proc[p].pc = "idle"
  /\ \A k \in 1..Len(results) : Fulfilled(results[k].index + 1)
  /\ (dlState = "returned" /\ \A p \in 1..nImages : Rejected(p)) => results = <<>>

\* C9 witness: a call returned normally with a result although one image
\* failed before its temp file was written and one failed after (hashing or
\* optimisation).
C9_Witness ==
  /\ dlState = "returned"
  /\ Len(results) >= 1
  /\ \E p, q \in Positions :
       /\ Rejected(p) /\ tempPathOf(p) \notin files
       /\ Rejected(q) /\ tempPathOf(q) \in files

-----------------------------------------------------------------------------
(***************************************************************************)
(* Claims about OllamaClient.generateSummaryWithFallback (SpecFallback)    *)
(* and OllamaClient.selectBestModel (SpecSelect)                           *)
(***************************************************************************)

\* `sub` occurs in `name` as a contiguous piece
Contains(name, sub) ==
  \E a \in 0..Len(name) :
    /\ a + Len(sub) <= Len(name)
    /\ \A k \in 1..Len(sub) : name[a + k] = sub[k]

\* Some model of the inventory `inv` has a name the candidate occurs in
PresentIn(inv, candidate) == \E j \in 1..Len(inv) : Contains(inv[j], candidate)

\* C2: generateSummaryWithFallback sends its generation requests strictly in
\* the order [primary, ...fallbacks], never has two of them in flight, and
\* after the first successful generation tries no further candidate and
\* returns that first success.
C2_InOrderOneAtATimeFirstSuccess ==
  /\ \A a \in 1..Len(fb.requests) : fb.requests[a] \in 1..Len(fb.modelsToTry)
  /\ \A a, b \in 1..Len(fb.requests) : a < b => fb.requests[a] < fb.requests[b]
  /\ fb.inFlight <= 1
  /\ fb.inFlight = 1 <=> fb.pc = "generating"
  /\ fb.okIdx # 0 =>
       /\ fb.pc = "done"
       /\ fb.inFlight = 0
       /\ fb.requests[Len(fb.requests)] = fb.okIdx
       /\ fb.result = fb.modelsToTry[fb.okIdx]
  /\ fb.pc = "done" => fb.okIdx # 0
  /\ fb.pc = "failed" => fb.okIdx = 0 /\ fb.result = NoModel

\* C2 witness: the call returned the generation of its third candidate after
\* the generations of the first two had failed.
C2_Witness ==
  /\ fb.pc = "done"
  /\ fb.requests = <<1, 2, 3>>
  /\ fb.result = fb.modelsToTry[3]

\* C10: no generation request is sent for a candidate that no model of the
\* inventory contains (such a candidate is skipped), and when the primary
\* model is absent while a fallback is present and its generation succeeds,
\* the returned result's model is that fallback.
C10_AbsentSkippedFallbackReturned ==
  /\ \A a \in 1..Len(fb.requests) :
       PresentIn(serverModels, fb.modelsToTry[fb.requests[a]])
  /\ (fb.pc = "done" /\ ~PresentIn(serverModels, fb.modelsToTry[1])) =>
       /\ fb.okIdx >= 2
       /\ fb.result = fb.modelsToTry[fb.okIdx]
       /\ PresentIn(serverModels, fb.result)
       /\ fb.requests[1] >= 2

\* C10 witness: the primary model is absent, the first fallback is present,
\* its generation was the only one requested and is what the call returned.
C10_Witness ==
  /\ fb.pc = "done"
  /\ Len(fb.modelsToTry) >= 2
  /\ ~PresentIn(serverModels, fb.modelsToTry[1])
  /\ PresentIn(serverModels, fb.modelsToTry[2])
  /\ fb.requests = <<2>>
  /\ fb.result = fb.modelsToTry[2]

\* C11: when every candidate of the chain is unavailable or fails its
\* generation, generateSummaryWithFallback returns no result and throws one
\* aggregate 'all models failed' error carrying the message of the last
\* error a generation threw ('Unknown error' when no generation was tried);
\* it throws nothing else and only then.
C11_AllFailedCarriesLastError ==
  /\ fb.pc = "failed" =>
       /\ fb.result = NoModel
       /\ fb.okIdx = 0
       /\ fb.inFlight = 0
       /\ fb.thrown.kind = "ALL_FAILED"
       /\ Len(fb.errors) = Len(fb.requests)
       /\ fb.thrown.cause = IF fb.errors = <<>> THEN NoError
                            ELSE fb.errors[Len(fb.errors)]
       /\ \A a \in 1..Len(fb.errors) :
            fb.errors[a].model = fb.modelsToTry[fb.requests[a]]
  /\ fb.pc # "failed" => fb.thrown.kind = "none"

\* C11 witness: the call failed after an unavailable candidate was skipped
\* and two generations failed with different errors; the aggregate carries
\* the second one.
C11_Witness ==
  /\ fb.pc = "failed"
  /\ fb.requests = <<1, 3>>
  /\ fb.errors[1].kind # fb.errors[2].kind
  /\ fb.thrown.cause = fb.errors[2]

\* C12: selectBestModel goes through the caller's preference list in order
\* and selects the first preference that some entry of the cached inventory
\* contains as a substring; when no preference matches it returns the first
\* model of the inventory.
C12_FirstMatchingPreference ==
  (sel.pc = "returned" /\ sel.models.loaded) =>
    LET inv == sel.models.models
        prefs == sel.preferredModels
    IN /\ \A k \in 1..Len(prefs) :
            (/\ PresentIn(inv, prefs[k])
             /\ \A j \in 1..(k - 1) : ~PresentIn(inv, prefs[j]))
              => sel.result = prefs[k]
       /\ ((\A k \in 1..Len(prefs) : ~PresentIn(inv, prefs[k])) /\ inv # <<>>)
            => sel.result = Head(inv)

\* C12 witness: the first preference matched nothing, the second one matched
\* the second model of the inventory and was selected.
C12_Witness ==
  /\ sel.pc = "returned"
  /\ sel.models.loaded
  /\ Len(sel.preferredModels) = 2
  /\ Len(sel.models.models) = 2
  /\ ~PresentIn(sel.models.models, sel.preferredModels[1])
  /\ Contains(sel.models.models[2], sel.preferredModels[2])
  /\ ~Contains(sel.models.models[1], sel.preferredModels[2])
  /\ sel.result = sel.preferredModels[2]

\* C6 as stated: selectBestModel returns null when the inventory it read is
\* empty, and for a non-empty inventory a name that is in the inventory.
C6_ReturnsInventoryName ==
  (sel.pc = "returned" /\ sel.models.loaded) =>
    IF sel.models.models = <<>>
      THEN sel.result = NoModel
      ELSE sel.result \in Range(sel.models.models)

\* The preferences (by position) that some model name of the inventory contains
MatchingPreferences(inv, prefs) == {k \in 1..Len(prefs) : PresentIn(inv, prefs[k])}

\* C6 amended: selectBestModel returns null when the inventory it read is
\* empty; for a non-empty inventory it returns the first preference that
\* occurs in some model name of the inventory (the preference string itself,
\* not the model's name), and the first name of the inventory when no
\* preference does.
C6_ReturnsPreferenceOrFirstName ==
  (sel.pc = "returned" /\ sel.models.loaded) =>
    LET inv == sel.models.models
        matching == MatchingPreferences(inv, sel.preferredModels)
    IN IF inv = <<>> THEN sel.result = NoModel
       ELSE IF matching # {}
         THEN \E k \in matching :
                /\ \A m \in matching : k <= m
                /\ sel.result = sel.preferredModels[k]
         ELSE sel.result = inv[1]

\* C6 witness: with a non-empty inventory selectBestModel returned a
\* preference that is only a part of a model's name.
C6_Witness ==
  /\ sel.pc = "returned"
  /\ sel.models.loaded
  /\ sel.models.models # <<>>
  /\ sel.result \notin Range(sel.models.models)
  /\ sel.result \in Range(sel.preferredModels)

-----------------------------------------------------------------------------
(***************************************************************************)
(* Claims about the inventory cache of one OllamaClient (SpecCache: a       *)
(* generateSummaryWithFallback call and a selectBestModel call that may    *)
(* overlap, and the server's model set changing)                           *)
(***************************************************************************)

\* This step starts a selectBestModel call while the cache is loaded
SelectStartsLoaded == availableModels.loaded /\ sel.pc = "idle" /\ sel'.pc # "idle"

\* This step makes a hasModel call of the fallback loop while the cache is
\* loaded: the loop moves on to a candidate it has (it was not waiting for
\* its own inventory request)
HasModelStartsLoaded ==
  /\ availableModels.loaded
  /\ fb.pc \in {"idle", "generating"}
  /\ fb'.idx > fb.idx
  /\ NextIndex(fb.idx) <= Len(fb'.modelsToTry)

\* C21 as stated: after the first successful fetch every later selectBestModel
\* and hasModel call on the instance sends no further inventory request and
\* uses the inventory of that first fetch, whatever the server lists by then.
C21_LaterCallsUseFirstInventory ==
  [][ /\ availableModels.loaded => tagRequests' = tagRequests
      /\ SelectStartsLoaded => sel'.models = Loaded(fetched[1])
      /\ HasModelStartsLoaded => fb'.models = Loaded(fetched[1]) ]_vars

\* C21, what the client does: a call that starts while the cache is loaded
\* sends no inventory request and uses the inventory cached at that moment,
\* which is the one assigned last; it is the first one fetched as long as no
\* request that was in flight has been answered after the first.
C21_LaterCallsUseCachedInventory ==
  [][ /\ availableModels.loaded => /\ tagRequests' = tagRequests
                                   /\ availableModels = Loaded(fetched[Len(fetched)])
      /\ SelectStartsLoaded => sel'.models = availableModels /\ sel'.pc = "returned"
      /\ HasModelStartsLoaded => fb'.models = availableModels /\ fb'.pc # "fetching" ]_vars

\* C21: the fallback call fetched the inventory first; the answer to the
\* request selectBestModel had in flight replaced it after the server's model
\* set changed; the next hasModel of the fallback loop used the new inventory.
C21_LaterCallUsedOtherInventory ==
  /\ Len(fetched) = 2
  /\ fetched[1] # fetched[2]
  /\ sel.pc = "returned"
  /\ sel.models = Loaded(fetched[2])
  /\ fb.models = Loaded(fetched[2])
  /\ Len(fb.errors) >= 1

\* C22 as stated: under every interleaving of overlapping calls on one
\* instance the cache is assigned at most once, so two calls never observe
\* different inventories.
C22_CacheAssignedOnce ==
  /\ Len(fetched) <= 1
  /\ fb.models.loaded /\ sel.models.loaded => fb.models = sel.models

\* C22, what the client does: every call that found the cache empty sends its
\* own request and assigns the cache when it is answered, so the cache is
\* assigned once per answered request and holds the inventory assigned last.
C22_CacheAssignedPerAnsweredRequest ==
  /\ Len(fetched) <= tagRequests
  /\ availableModels.loaded <=> fetched # <<>>
  /\ availableModels.loaded => availableModels.models = fetched[Len(fetched)]

\* C22: both calls found the cache empty and sent a request; the server's
\* model set changed between the two answers, the cache was assigned twice
\* and the two calls worked with different inventories.
C22_TwoCallsSawDifferentInventories ==
  /\ Len(fetched) = 2
  /\ fb.pc = "done"
  /\ sel.pc = "returned"
  /\ fb.models = Loaded(fetched[1])
  /\ sel.models = Loaded(fetched[2])
  /\ fetched[1] # fetched[2]

-----------------------------------------------------------------------------
(***************************************************************************)
(* Claims about BrowserEngine (SpecLoad, SpecPaywall)                      *)
(***************************************************************************)

\* N of a loadPageWithCookies call: the caller's retries, else the configured
\* number, else 3
AttemptLimit ==
  IF load.optRetries # 0 THEN load.optRetries
  ELSE IF load.cfgRetries # 0 THEN load.cfgRetries ELSE 3

\* C23: loadPageWithCookies goes Idle -> Loading -> (Retrying -> Loading)* ->
\* Loaded | Failed: it makes at most N navigation attempts, none after the
\* first successful one, it retries only after a failed attempt, it ends
\* Loaded only after a successful navigation, and it reports a navigation
\* failure only after the N-th attempt has failed.
C23_AtMostNAttemptsStopAtSuccess ==
  /\ load.gotos <= AttemptLimit
  /\ load.okAttempt # 0 =>
       /\ load.gotos = load.okAttempt
       /\ load.failed = load.okAttempt - 1
       /\ load.pc \in {"waiting", "loaded", "failed"}
       /\ load.thrown \in {"none", "wait"}
  /\ load.pc = "retrying" => load.okAttempt = 0 /\ load.failed = load.gotos /\ load.failed >= 1
  /\ load.pc = "loading" => load.okAttempt = 0 /\ load.failed = load.gotos - 1
  /\ load.pc = "loaded" => load.okAttempt # 0 /\ load.thrown = "none"
  /\ load.thrown = "navigation" =>
       /\ load.pc = "failed"
       /\ load.okAttempt = 0
       /\ load.failed = AttemptLimit
       /\ load.gotos = AttemptLimit
  /\ load.pc = "failed" <=> load.thrown # "none"

\* C23 witness: the caller asked for 2 attempts although 3 are configured;
\* the first navigation failed, the call waited and the second succeeded.
C23_Witness ==
  /\ load.pc = "loaded"
  /\ load.optRetries = 2
  /\ load.cfgRetries = 3
  /\ load.antiDetection
  /\ load.failed = 1
  /\ load.okAttempt = 2

\* C24: detectPaywall returns SoftOverlay exactly when the rendered HTML
\* matches a paywall keyword pattern and the body text is shorter than 500
\* characters; in every other case, also when looking at the page fails, it
\* returns None, never ClientHard or ServerSide.
C24_SoftOverlayIffMatchedAndShort ==
  paywall.pc = "returned" =>
    LET page == paywall.page
        inspected == ~page.contentFails /\ (paywall.evaluated => ~page.evaluateFails)
        matched == \/ \E k \in 1..Len(page.content) :
                        page.content[k] \in {"Subscribe now", "LOG IN", "metered"}
                   \/ \E k, m \in 1..Len(page.content) :
                        k < m /\ page.content[k] = "modal" /\ page.content[m] = "close"
    IN /\ paywall.verdict \in {"soft-overlay", "none"}
       /\ paywall.verdict = "soft-overlay" <=>
            inspected /\ matched /\ page.bodyLength < 500
       /\ paywall.evaluated <=> (~page.contentFails /\ matched)

\* C24 witness: a page of 200 characters of body text whose HTML says
\* "Subscribe now" was classified SoftOverlay.
C24_Witness ==
  /\ paywall.pc = "returned"
  /\ paywall.page.content = <<"Subscribe now">>
  /\ paywall.page.bodyLength = 200
  /\ paywall.verdict = "soft-overlay"

-----------------------------------------------------------------------------
(***************************************************************************)
(* Claims about one pipeline run (SpecExtract)                             *)
(***************************************************************************)

\* The methods that examine the content of the loaded page
ContentMethods == {"identifyArticleContainer", "extractContent"}

\* C25 as stated: every page that loads successfully is paywall-classified
\* (detectPaywall has been called) before its content is extracted.
C25_PaywallCheckedBeforeContent ==
  extract.called \cap ContentMethods # {} => "detectPaywall" \in extract.called

\* C25, what the run does: content is extracted only from a page that
\* loadPageWithCookies returned, and directly after the load.
C25_ContentOnlyFromLoadedPage ==
  extract.called \cap ContentMethods # {} =>
    /\ load.pc = "loaded"
    /\ "loadPageWithCookies" \in extract.called

\* C25: a run finished and saved the article; its page was loaded and its
\* content extracted without any paywall classification.
C25_ContentExtractedUnclassified ==
  /\ extract.pc = "done"
  /\ load.pc = "loaded"
  /\ "extractContent" \in extract.called
  /\ "detectPaywall" \notin extract.called
  /\ paywall = NoPaywallCall

\* C26 as stated: cookie expiry is checked before the cookies are used: no
\* cookie whose expiry lies in the past is injected into a page.
C26_NoExpiredCookieInjected == detectExpiredCookies(load.injected) = <<>>

\* C26, what the run does: the cookies handed to the page are all the
\* cookies of the file, as loaded.
C26_AllFileCookiesInjected ==
  /\ load.injected \in {<<>>, extract.cookies}
  /\ load.pc \in {"loading", "retrying", "waiting", "loaded"} =>
       load.injected = extract.cookies

\* C26: the cookie file held a cookie that expired before now; the run
\* injected it, loaded the page with it and finished.
C26_ExpiredCookieInjected ==
  /\ extract.pc = "done"
  /\ Len(load.injected) = 1
  /\ load.injected[1].expires = 1000
  /\ load.injected[1].expires < Now

\* C27: a failure of the summarization stage (server unreachable, or
\* generation failing) never aborts the run: the run goes on to save the
\* article with summaryResult = null, no error of the stage is thrown, and a
\* run that then finishes has saved the article without a summary.
C27_SummaryFailureNeverAborts ==
  /\ extract.thrown # "summary"
  /\ extract.failures \cap {"unreachable", "summary"} # {} =>
       /\ extract.summaryResult = NoSummary
       /\ "saveCompleteArticle" \in extract.called
       /\ extract.pc \in {"saving", "closing", "cleanup", "done", "aborted"}
       /\ extract.pc \in {"cleanup", "aborted"} => extract.thrown \in {"save", "close"}
       /\ extract.pc \in {"closing", "done"} =>
            extract.saved.summary = "[Summarization skipped]"

\* C27 witness: generation failed and the run finished with the article
\* saved and no summary.
C27_Witness ==
  /\ extract.pc = "done"
  /\ "summary" \in extract.failures
  /\ extract.summaryResult = NoSummary
  /\ extract.saved # NotSaved

\* C28 as stated: a failure anywhere in the image stage (image discovery or
\* image download) never aborts the run: the run goes on and saves the
\* article with the images that could be acquired.
C28_ImageFailureNeverAborts ==
  /\ extract.thrown # "images"
  /\ "images" \in extract.failures => "isRunning" \in extract.called \/ ~extract.summary

\* C28, what the run does: images that fail one by one are left out and the
\* run goes on; the run is aborted by the image stage exactly when image
\* discovery or downloadImages as a whole throws.
C28_OnlyWholeStageFailureAborts ==
  /\ "images" \in extract.failures <=> extract.thrown = "images"
  /\ extract.thrown = "images" => extract.acquired = 0 /\ extract.saved = NotSaved
  /\ extract.pc = "done" => extract.saved.images = extract.acquired

\* C28: images were found but downloadImages threw (./temp_images could not
\* be created); the run was aborted with that error, nothing saved.
C28_AbortedByImageStage ==
  /\ extract.pc = "aborted"
  /\ extract.thrown = "images"
  /\ "downloadImages" \in extract.called
  /\ extract.pageImages >= 1
  /\ extract.saved = NotSaved

\* C29 as stated: every failure raised by a stage of the run (page load,
\* image acquisition, summarization) is routed through ErrorHandler.handle
\* before the run continues, degrades or aborts.
C29_FailuresRoutedThroughHandler ==
  extract.failures \cap {"load", "images", "unreachable", "summary"} # {} =>
    nHandles >= 1 /\ "ErrorHandler.handle" \in extract.called

\* C29, what the run does: failures are dealt with by the try/catch blocks
\* of extractSingleArticle alone; the handler is never called, counts no
\* error and records no recovery attempt.
C29_HandlerNeverCalled ==
  /\ nHandles = 0
  /\ errorCount = 0
  /\ recoveryAttempts = EmptyMap
  /\ extract.thrown # "none" => extract.thrown \in extract.failures

\* C29: the page load failed and the run was aborted without any handle call.
C29_LoadFailureNotRouted ==
  /\ extract.pc = "aborted"
  /\ extract.thrown = "load"
  /\ load.thrown = "navigation"
  /\ nHandles = 0

\* The run has returned or thrown after new BrowserEngine()
ExitedWithBrowser == extract.pc \in {"done", "aborted"} /\ extract.browser # "none"

\* A page whose load failed is closed when loadPageWithCookies throws
FailedPageClosed == load.pc = "failed" => ~load.pageOpen

SelectFetchFails == sel.pc = "fetching" /\ sel'.pc # "fetching" /\ ~sel'.models.loaded

\* This step is the failure of the inventory request of a hasModel call of
\* the fallback loop: the loop leaves the wait without an inventory assigned
HasModelFetchFails == fb.pc = "fetching" /\ fb' # fb /\ fetched' = fetched

\* C33: when the inventory cannot be fetched, selectBestModel returns null
\* whatever the preferences, and hasModel returns false whatever the model
\* asked for: the fallback loop sends no generate request for that candidate
\* and goes on to a later one or runs out of candidates; neither raises (no
\* error is recorded by the loop, and selectBestModel returns).
C33_NoInventoryNullAndFalse ==
  [][/\ SelectFetchFails => sel'.pc = "returned" /\ sel'.result = NoModel
     /\ HasModelFetchFails =>
          /\ fb'.idx > fb.idx
          /\ \A k \in (Len(fb.requests) + 1)..Len(fb'.requests) : fb'.requests[k] > fb.idx
          /\ fb'.lastError = fb.lastError /\ fb'.errors = fb.errors
          /\ fb'.pc \in {"fetching", "generating", "failed"}
          /\ fb'.pc = "failed" => fb'.thrown = AllFailed(fb.lastError)]_vars

\* C33: no inventory request was answered; selectBestModel returned null for
\* a non-empty preference list and the fallback loop, with hasModel false
\* for each of its two candidates, ran out without a generate request
C33_Witness ==
  /\ ~availableModels.loaded
  /\ sel.pc = "returned" /\ sel.preferredModels # <<>> /\ sel.result = NoModel
  /\ fb.pc = "failed" /\ Len(fb.modelsToTry) = 2 /\ fb.requests = <<>>
  /\ tagRequests = 3

-----------------------------------------------------------------------------
(***************************************************************************)
(* Claims about the termination of downloadImages (SpecImgLive)            *)
(***************************************************************************)

\* C37 as stated: downloadImages terminates for every finite image list and
\* every value of maxConcurrent passed by the caller, provided each
\* individual download settles: a call that was made returns or raises.
C37_DownloadImagesTerminates == dlState # "idle" ~> dlState \in {"returned", "raised"}

\* C37, what downloadImages does: a call with maxConcurrent of 1 or more
\* returns or raises.
C37_TerminatesWhenMaxConcurrentPositive ==
  (dlState # "idle" /\ maxConcurrent >= 1) ~> dlState \in {"returned", "raised"}

\* C37: called with maxConcurrent = 0 and a non-empty list, the loop is at
\* an empty batch with i still 0 and no processImage call made
C37_LoopStandsStill ==
  /\ dlState = "running"
  /\ maxConcurrent = 0
  /\ nImages >= 1
  /\ i = 0
  /\ batch = <<>>
  /\ \A p \in Positions : proc[p].pc = "idle"

-----------------------------------------------------------------------------
(***************************************************************************)
(* Claims about the files downloadImages leaves (SpecImg)                  *)
(***************************************************************************)

\* The localPaths of the returned LocalImages
ReturnedPaths == {results[k].localPath : k \in 1..Len(results)}

\* C39 as stated: when downloadImages returns, every file it created in
\* outputDir that still exists is the localPath of one of the returned
\* LocalImages.
C39_OnlyReturnedFilesRemain == dlState = "returned" => files \subseteq ReturnedPaths

\* C39, what downloadImages leaves: when it returns, the file of every
\* returned LocalImage exists, and every file that exists is the optimized
\* file of an image that was processed to the end (returned or dropped as a
\* duplicate) or the temporary file of an image whose processing failed
\* after its download.
C39_FilesOfProcessedAndFailedImages ==
  dlState = "returned" =>
    /\ ReturnedPaths \subseteq files
    /\ \A p \in Positions :
         /\ localPathOf(p) \in files <=> Fulfilled(p)
         /\ tempPathOf(p) \in files => Rejected(p)
    /\ files \subseteq {localPathOf(p) : p \in Positions} \cup {tempPathOf(p) : p \in Positions}

\* C39: downloadImages returned one image of three; the optimized file of a
\* duplicate and the temporary file of a failed image are still there
C39_FilesLeftBehind ==
  /\ dlState = "returned"
  /\ nImages = 3
  /\ Len(results) = 1
  /\ \E p, q \in Positions :
       /\ Fulfilled(p) /\ localPathOf(p) \in files \ ReturnedPaths
       /\ Rejected(q) /\ tempPathOf(q) \in files

-----------------------------------------------------------------------------
(***************************************************************************)
(* Claims about the statistics of one ErrorHandler (SpecHandler)           *)
(***************************************************************************)

\* The sum of the counts of a Map
RECURSIVE SumOf(_)
SumOf(m) ==
  IF DOMAIN m = {} THEN 0
  ELSE LET k == CHOOSE x \in DOMAIN m : TRUE IN
       m[k] + SumOf([x \in DOMAIN m \ {k} |-> m[x]])

\* C34: getStats().totalErrors (this.errorCount) equals the number of handle
\* calls since construction or the last reset, whatever the errors were and
\* however the calls ended; and with no handle call since construction or
\* the last reset the handler is as a fresh one: totalErrors = 0 and no
\* recovery attempt recorded for any code.
C34_TotalErrorsCountsHandleCalls ==
  /\ errorCount = SumOf(occurrences)
  /\ occurrences = EmptyMap => errorCount = 0 /\ recoveryAttempts = EmptyMap

\* C34: two handle calls, one of which recorded a recovery attempt, then a
\* reset, then one more handle call: totalErrors is 1
C34_Witness ==
  /\ nHandles = 3
  /\ errorCount = 1
  /\ SumOf(recoveryAttempts) <= 1

\* C35 as stated: with exitOnFatal enabled, handle terminates the process
\* for an error if and only if ErrorHandler.isFatal is true for it
\* (PaywallDetected, CookieExpired, ConfigValidation).
C35_ExitsIffFatal ==
  exitOnFatal /\ lastResult.state # "none" =>
    (lastResult.state = "exited" <=> isFatal(lastResult.error))

\* C35, what handle does: with exitOnFatal enabled it terminates the process
\* if and only if the normalised error has recoverable = false, which of the
\* fatal kinds only ConfigValidation has; without the option it never does.
C35_ExitsIffNotRecoverable ==
  /\ lastResult.state # "none" =>
       (lastResult.state = "exited" <=> exitOnFatal /\ ~lastResult.error.recoverable)
  /\ exited <=> lastResult.state = "exited"
  /\ lastResult.state = "exited" /\ lastResult.error.cls \in TaxonomyClasses =>
       lastResult.error.cls = "ConfigValidationError"

\* C35: a handler with exitOnFatal was given a PaywallDetectedError, for
\* which isFatal is true, and handle returned without terminating the process
C35_FatalErrorDidNotExit ==
  /\ exitOnFatal
  /\ lastResult.error.cls = "PaywallDetectedError"
  /\ isFatal(lastResult.error)
  /\ lastResult.state = "returned"
  /\ ~exited

\* The classes no case of the recovery switch matches: the two taxonomy
\* kinds without a recovery action and the base class, which normalizeError
\* also gives to every error from outside the taxonomy (UNKNOWN_ERROR)
NoActionClasses == {"InsufficientMemoryError", "FileSystemError", "ArticleExtractionError"}

\* C40: for a recoverable error whose kind has no recovery action, handle
\* returns recovered = false in every handler state, and a call made while
\* fewer than 3 attempts are recorded for the error's code records one more
\* attempt for that code (and with 3 recorded it records none).
C40_NoActionNeverRecoveredButCounted ==
  [][(/\ nHandles' = nHandles + 1
      /\ lastResult'.error.cls \in NoActionClasses
      /\ lastResult'.error.recoverable)
       => /\ lastResult'.handled /\ ~lastResult'.recovered
          /\ recoveryAttempts' =
               IF getOrZero(recoveryAttempts, lastResult'.error.code) < 3
                 THEN set(recoveryAttempts, lastResult'.error.code,
                          getOrZero(recoveryAttempts, lastResult'.error.code) + 1)
                 ELSE recoveryAttempts]_vars

\* C40: a FileSystemError was handled unrecovered as the second of its code,
\* after an error from outside the taxonomy was
C40_Witness ==
  /\ lastResult.given = TaxonomyError("FileSystemError")
  /\ ~lastResult.recovered
  /\ lastResult.state = "returned"
  /\ getOrZero(recoveryAttempts, "FILE_SYSTEM_ERROR") = 2
  /\ getOrZero(recoveryAttempts, "UNKNOWN_ERROR") = 1

-----------------------------------------------------------------------------
(***************************************************************************)
(* Claims about OllamaClient.generateSummaryStream (SpecStream)            *)
(***************************************************************************)

\* C32 as stated: the concatenation of the fragments yielded by
\* generateSummaryStream equals the in-order concatenation of the response
\* fields of all JSON objects of the stream, however the stream is split
\* into network chunks.
C32_YieldsEveryFragmentInOrder ==
  stream.pc = "done" => concat(stream.yielded) = concat(stream.sent)

\* C32, what the generator does: when every chunk ends at the end of a line
\* the yielded fragments are the non-empty response fields in order; in any
\* case it never yields more text than was sent.
C32_YieldsEveryFragmentOfWholeLines ==
  /\ stream.pc = "done" /\ ~stream.cut =>
       stream.yielded = SelectSeq(stream.sent, LAMBDA f : f # <<>>)
  /\ Len(concat(stream.yielded)) <= Len(concat(stream.sent))

\* C32: a stream of two objects was read to its end, a chunk ended inside
\* the line of the first, and only the fragment of the second was yielded
C32_FragmentLost ==
  /\ stream.pc = "done"
  /\ stream.cut
  /\ Len(stream.sent) = 2
  /\ stream.sent[1] # <<>>
  /\ stream.yielded = <<stream.sent[2]>>
  /\ concat(stream.yielded) # concat(stream.sent)

-----------------------------------------------------------------------------
(***************************************************************************)
(* Claims about batchExtract (SpecBx)                                      *)
(***************************************************************************)

\* The runs of a batchExtract call cover the list once: no URL is run twice,
\* every group the loop starts runs URLs of the list (so the loop moves on),
\* the URLs run so far are the first ones of the list, a finished call has
\* run every URL, and the call raises only when the file gave it no URL.
EveryUrlOnce ==
  /\ \A u \in DOMAIN bx.attempts : bx.attempts[u] = 1
  /\ \E k \in 0..bx.urls : DOMAIN bx.attempts = 1..k
  /\ bx.pc = "running" => bx.group # {}
  /\ bx.pc = "done" => DOMAIN bx.attempts = 1..bx.urls
  /\ bx.pc = "raised" => ~bx.readable \/ bx.urls = 0

\* C30 as stated: a failure of one URL's run aborts that URL only: every URL
\* listed in the file is attempted exactly once whichever other URLs fail,
\* and batchExtract completes without raising.
C30_EveryUrlAttemptedOnce == EveryUrlOnce

\* C30, what batchExtract does: with a parallel count of 1 or more every URL
\* is attempted exactly once whichever runs fail, and the failures of runs
\* are never raised by batchExtract.
C30_EveryUrlOnceWhenParallelPositive ==
  /\ bx.parallelCount >= 1 => EveryUrlOnce
  /\ bx.failed \subseteq DOMAIN bx.attempts
  /\ bx.pc = "raised" => bx.attempts = EmptyMap

\* C30: with a negative --parallel the first group took all URLs but the
\* last ones; every later group is empty, so a URL of the list has not been
\* attempted and never will be, and the call does not complete.
C30_UrlNeverAttempted ==
  /\ bx.pc = "running"
  /\ bx.parallelCount < 0
  /\ bx.i <= 0 - bx.urls
  /\ bx.group = {}
  /\ DOMAIN bx.attempts # {}
  /\ bx.urls \notin DOMAIN bx.attempts

\* The number of runs the --parallel option allows at a time: the number
\* given, 1 (the default) when no number of 1 or more was given
ParallelLimit == IF bx.parallelCount >= 1 THEN bx.parallelCount ELSE 1

\* C36 as stated: batchExtract runs at most `parallel` pipeline runs at the
\* same time (default 1), and every run in flight belongs to the current
\* group: no run of the next group is started before every run of the
\* current group has finished, successfully or not.
C36_AtMostParallelRuns ==
  /\ Cardinality(bx.inFlight) <= ParallelLimit
  /\ bx.inFlight \subseteq bx.group

\* C36, what batchExtract does: with a parallel count of 1 or more at most
\* that many runs are in flight at any time, and for every parallel count
\* the runs in flight belong to the current group and the loop is at rest
\* (reading, done or raised) only with no run in flight.
C36_AtMostParallelRunsWhenPositive ==
  /\ bx.parallelCount >= 1 => bx.peak <= bx.parallelCount
  /\ Cardinality(bx.inFlight) <= bx.peak
  /\ bx.inFlight \subseteq bx.group
  /\ bx.pc # "running" => bx.inFlight = {}

\* C36: with --parallel=-1 and three URLs two runs are in flight at once
C36_MoreRunsThanParallel ==
  /\ bx.parallelCount = -1
  /\ bx.urls = 3
  /\ Cardinality(bx.inFlight) = 2
  /\ bx.failed = {}

\* C38 as stated: batchExtract terminates for every non-empty URL list and
\* every value of the --parallel option, provided each pipeline run settles:
\* a call that was made returns or raises.
C38_BatchExtractTerminates == bx.pc # "idle" ~> bx.pc \in {"done", "raised"}

\* C38, what batchExtract does: a call with a parallel count of 1 or more
\* returns or raises.
C38_TerminatesWhenParallelPositive ==
  (bx.pc # "idle" /\ bx.parallelCount >= 1) ~> bx.pc \in {"done", "raised"}

\* C38: with a negative parallel count the loop variable has gone below
\* -urls.length; every group from here on is empty and i < urls.length stays
\* true
C38_LoopRunsAway ==
  /\ bx.pc = "running"
  /\ bx.parallelCount < 0
  /\ bx.i < 0 - bx.urls
  /\ bx.group = {}

-----------------------------------------------------------------------------
(***************************************************************************)
(* Claims about ErrorHandler (SpecHandler, SpecFatal)                      *)
(***************************************************************************)

\* C3: within one run (since construction or the last reset), for every error
\* code the recovery action is run at most 3 times, and from the 4th
\* occurrence of a code on, handle returns recovered = false whatever the
\* kind of the error.
C3_AtMostThreeRecoveries ==
  /\ \A c \in Codes :
       /\ getOrZero(actionsRun, c) <= 3
       /\ getOrZero(actionsRun, c) <= getOrZero(occurrences, c)
       /\ getOrZero(recoveryAttempts, c) <= 3
  /\ DOMAIN actionsRun \cup DOMAIN occurrences \cup DOMAIN recoveryAttempts \subseteq Codes
  /\ (lastResult.state # "none" /\ getOrZero(occurrences, lastResult.error.code) >= 4) =>
       ~lastResult.recovered

\* C3 witness: the 4th ImageDownloadError of a run (a kind whose recovery
\* otherwise always succeeds) was handled, after three recoveries for it.
C3_Witness ==
  /\ lastResult.state = "returned"
  /\ lastResult.given = TaxonomyError("ImageDownloadError")
  /\ getOrZero(occurrences, "IMAGE_DOWNLOAD_FAILED") = 4
  /\ getOrZero(actionsRun, "IMAGE_DOWNLOAD_FAILED") = 3
  /\ ~lastResult.recovered

\* C4 as stated: the backoff waits handle makes for the 1st, 2nd and 3rd
\* NetworkTimeout error of a run are 1000 ms, 2000 ms and 4000 ms, in that
\* order: each of the first three occurrences has waited, and the waits are
\* the beginning of 1000, 2000, 4000.
C4_Backoff1000_2000_4000 ==
  /\ Len(sleeps) = Min(getOrZero(occurrences, "NETWORK_TIMEOUT"), 3)
  /\ \A k \in 1..Len(sleeps) : sleeps[k] = (2 ^ (k - 1)) * 1000

\* C4, what the handler does: the first NetworkTimeout of a run waits
\* 2000 ms, the second 4000 ms, and there is no third wait.
C4_Backoff2000_4000 ==
  /\ Len(sleeps) = Min(getOrZero(occurrences, "NETWORK_TIMEOUT"), 2)
  /\ \A k \in 1..Len(sleeps) : sleeps[k] = (2 ^ k) * 1000

\* C4: three NetworkTimeout errors were handled in one run; the third was not
\* recovered and did not wait.
C4_ThirdTimeoutNotRetried ==
  /\ lastResult.state = "returned"
  /\ lastResult.given = TaxonomyError("NetworkTimeoutError")
  /\ getOrZero(occurrences, "NETWORK_TIMEOUT") = 3
  /\ ~lastResult.recovered
  /\ sleeps = <<2000, 4000>>

\* C13 as stated: each of the first three NetworkTimeout errors handled in a
\* run yields recovered = true, and every later one recovered = false.
C13_FirstThreeTimeoutsRecovered ==
  (/\ lastResult.given = TaxonomyError("NetworkTimeoutError")
   /\ getOrZero(occurrences, "NETWORK_TIMEOUT") >= 1)
    => (lastResult.recovered <=> getOrZero(occurrences, "NETWORK_TIMEOUT") <= 3)

\* C13, what the handler does: only the first two NetworkTimeout errors of a
\* run yield recovered = true; the third and every later one yield false.
C13_FirstTwoTimeoutsRecovered ==
  (/\ lastResult.given = TaxonomyError("NetworkTimeoutError")
   /\ getOrZero(occurrences, "NETWORK_TIMEOUT") >= 1)
    => (lastResult.recovered <=> getOrZero(occurrences, "NETWORK_TIMEOUT") <= 2)

\* C13: the third NetworkTimeout error of a run was handled, its recovery
\* was entered (the third recorded attempt) and it came back unrecovered.
C13_ThirdTimeoutUnrecovered ==
  /\ lastResult.given = TaxonomyError("NetworkTimeoutError")
  /\ getOrZero(occurrences, "NETWORK_TIMEOUT") = 3
  /\ getOrZero(actionsRun, "NETWORK_TIMEOUT") = 3
  /\ getOrZero(recoveryAttempts, "NETWORK_TIMEOUT") = 3
  /\ lastResult.handled
  /\ ~lastResult.recovered

\* The kinds whose recovery is to go on without the failed part
DegradableClasses ==
  {"ImageDownloadError", "OllamaConnectionError", "OllamaModelNotFoundError"}

\* C14: for an image-download failure, an unreachable-LLM-server error and a
\* model-not-found error (with or without a list of available models), a
\* handle call made while fewer than 3 recovery attempts are recorded for
\* the error's code returns recovered = true.
C14_DegradableRecovered ==
  [][(/\ nHandles' = nHandles + 1
      /\ lastResult'.given.cls \in DegradableClasses
      /\ getOrZero(recoveryAttempts, lastResult'.given.code) < 3)
       => (lastResult'.handled /\ lastResult'.recovered)]_vars

\* C14 witness: the third model-not-found error of a run, one without a list
\* of available models, was recovered after an image-download failure was.
C14_Witness ==
  /\ lastResult.given = ModelNotFoundError(<<>>)
  /\ lastResult.recovered
  /\ getOrZero(recoveryAttempts, "MODEL_NOT_FOUND") = 3
  /\ getOrZero(recoveryAttempts, "IMAGE_DOWNLOAD_FAILED") = 1

\* The kinds that need the user: fresh credentials or a fixed configuration
UserActionClasses ==
  {"PaywallDetectedError", "CookieExpiredError", "ConfigValidationError"}

\* C15: for PaywallDetected, CookieExpired and ConfigValidation errors handle
\* yields recovered = false in every reachable handler state, whatever the
\* attempt counts and the errors handled before.
C15_UserActionNeverRecovered ==
  [][(nHandles' = nHandles + 1 /\ lastResult'.given.cls \in UserActionClasses)
       => (lastResult'.handled /\ ~lastResult'.recovered)]_vars

\* C15 witness: a paywall error was handled unrecovered as the second of its
\* run, after a recovered error of another kind.
C15_Witness ==
  /\ lastResult.given = TaxonomyError("PaywallDetectedError")
  /\ lastResult.state = "returned"
  /\ ~lastResult.recovered
  /\ getOrZero(recoveryAttempts, "PAYWALL_DETECTED") = 2
  /\ getOrZero(recoveryAttempts, "OLLAMA_NOT_RUNNING") = 1

\* C16: handle turns every error from outside the taxonomy into an error
\* with the generic code UNKNOWN_ERROR and recoverable = true that keeps the
\* original message, hands an already typed error on unchanged as
\* result.error, and its result always has handled = true.
C16_NormalizedOrPassedThrough ==
  lastResult.state # "none" =>
    /\ lastResult.handled
    /\ IF lastResult.given.cls \in TaxonomyClasses \cup {"ArticleExtractionError"}
         THEN lastResult.error = lastResult.given
         ELSE /\ lastResult.error.cls = "ArticleExtractionError"
              /\ lastResult.error.code = "UNKNOWN_ERROR"
              /\ lastResult.error.recoverable
              /\ lastResult.error.message = lastResult.given.message

\* C16 witness: handle returned for a raw error with the message 'Error 2'
\* after it had handled a typed error and another raw error.
C16_Witness ==
  /\ lastResult.state = "returned"
  /\ lastResult.given = Raw(<<"Error 2">>)
  /\ lastResult.error.message = <<"Error 2">>
  /\ getOrZero(occurrences, "UNKNOWN_ERROR") = 2
  /\ getOrZero(occurrences, "FILE_SYSTEM_ERROR") = 1

\* C17: the recoverable flag an error was constructed with alone decides
\* whether automatic recovery is tried: handle never changes the flag, and
\* for an error with recoverable = false it runs no recovery action, leaves
\* every per-code attempt counter as it was and yields recovered = false.
C17_RecoverableFlagDecides ==
  [][nHandles' = nHandles + 1 =>
       /\ lastResult'.given.cls # "Error" =>
            lastResult'.error.recoverable = lastResult'.given.recoverable
       /\ ~lastResult'.error.recoverable =>
            /\ ~lastResult'.recovered
            /\ recoveryAttempts' = recoveryAttempts
            /\ actionsRun' = actionsRun
            /\ sleeps' = sleeps
       /\ (lastResult'.error.recoverable
           /\ getOrZero(recoveryAttempts, lastResult'.error.code) < 3) =>
            actionsRun' # actionsRun]_vars

\* C17 witness: a base-class error with code TEST and recoverable = false was
\* handled after one with the same code and recoverable = true; the one
\* attempt recorded for TEST is still one.
C17_Witness ==
  /\ lastResult.given = BaseError("TEST", FALSE)
  /\ lastResult.state = "returned"
  /\ ~lastResult.error.recoverable
  /\ getOrZero(occurrences, "TEST") = 2
  /\ getOrZero(recoveryAttempts, "TEST") = 1
  /\ getOrZero(actionsRun, "TEST") = 1

\* C18 as stated: every CookieExpiredError has recoverable = false.
C18_CookieExpiredNotRecoverable ==
  lastResult.given.cls = "CookieExpiredError" =>
    (~lastResult.given.recoverable /\ ~lastResult.error.recoverable)

\* C18, what the constructor does: every CookieExpiredError has
\* recoverable = true.
C18_CookieExpiredRecoverable ==
  lastResult.given.cls = "CookieExpiredError" =>
    (lastResult.given.recoverable /\ lastResult.error.recoverable)

\* C18: a CookieExpiredError was handled by a handler with exitOnFatal; it
\* carried recoverable = true, so a recovery attempt was recorded for its
\* code and the process did not exit, although it was not recovered.
C18_CookieExpiredTreatedRecoverable ==
  /\ lastResult.given = TaxonomyError("CookieExpiredError")
  /\ lastResult.given.recoverable
  /\ exitOnFatal
  /\ lastResult.state = "returned"
  /\ ~lastResult.recovered
  /\ getOrZero(recoveryAttempts, "COOKIE_EXPIRED") = 1

\* The handleError calls for code c made for the runs 1..r together
RECURSIVE CallsOfRunsUpTo(_, _)
CallsOfRunsUpTo(r, c) ==
  IF r = 0 THEN 0
  ELSE getOrZero(runs.calls, <<r, c>>) + CallsOfRunsUpTo(r - 1, c)

\* C19 as stated: recovery attempts are counted per pipeline run: what was
\* recorded for one run never counts against the 3-attempt cap of another,
\* so an image-download failure that is among the first three of its own
\* run is recovered however many the other runs reported, be it before or
\* in between.
C19_AttemptsScopedToRun ==
  (/\ runs.last # 0
   /\ lastResult.given = TaxonomyError("ImageDownloadError")
   /\ getOrZero(runs.calls, <<runs.last, "IMAGE_DOWNLOAD_FAILED">>) <= 3)
    => lastResult.recovered

\* C19, what handleError does: the attempts are counted per process: an
\* image-download failure is recovered exactly when it is among the first
\* three reported by all runs together.
C19_AttemptsScopedToProcess ==
  (runs.last # 0 /\ lastResult.given = TaxonomyError("ImageDownloadError")) =>
    /\ lastResult.recovered <=> getOrZero(occurrences, "IMAGE_DOWNLOAD_FAILED") <= 3
    /\ \A c \in Codes : getOrZero(occurrences, c) = CallsOfRunsUpTo(MaxRuns, c)

\* C19: run 2 reported its first image-download failure after run 1 had
\* reported three; it was not recovered.
C19_OtherRunUsedUpAttempts ==
  /\ runs.last = 2
  /\ lastResult.given = TaxonomyError("ImageDownloadError")
  /\ getOrZero(runs.calls, <<2, "IMAGE_DOWNLOAD_FAILED">>) = 1
  /\ getOrZero(runs.calls, <<1, "IMAGE_DOWNLOAD_FAILED">>) = 3
  /\ ~lastResult.recovered

\* C5: ErrorHandler.isFatal(error) is true exactly for the errors of kind
\* PaywallDetected, CookieExpired and ConfigValidationError, and false for
\* every other kind, errors outside the taxonomy included.
C5_FatalKinds ==
  \A k \in 1..Len(fatalChecks) :
    fatalChecks[k].result <=>
      fatalChecks[k].error.cls \in
        {"PaywallDetectedError", "CookieExpiredError", "ConfigValidationError"}

\* C5 witness: isFatal answered true for a recoverable PaywallDetectedError
\* and false for an error outside the taxonomy.
C5_Witness ==
  \E a, b \in 1..Len(fatalChecks) :
    /\ fatalChecks[a].error = TaxonomyError("PaywallDetectedError")
    /\ fatalChecks[a].error.recoverable
    /\ fatalChecks[a].result
    /\ fatalChecks[b].error = RawError
    /\ ~fatalChecks[b].result

-----------------------------------------------------------------------------
(***************************************************************************)
(* Claims about the runs of one batch (SpecBatch)                          *)
(***************************************************************************)

\* C20 as stated: runs executing at the same time share no files: no file
\* written by one run's image acquisition is read, overwritten or deleted by
\* another run.
C20_NoForeignFileAccess == foreign = {}

\* C20, what the runs do: every run works in ./temp_images under names made
\* of the image's index and URL, so runs interfere exactly on images with
\* the same index and URL, and only after such interference does an
\* acquisition fail or hash bytes another run downloaded.
C20_ForeignAccessOnSameUrl ==
  /\ \A ev \in foreign : ev[2] # ev[3] /\ acq[ev[2]].url = acq[ev[3]].url
  /\ \A run \in Runs :
       acq[run].pc = "failed" => \E ev \in foreign : run \in {ev[2], ev[3]}

\* C20: two runs acquired an image with the same URL; run 1 wrote the temp
\* file, run 2 overwrote it, run 1 hashed and deleted run 2's file, and
\* run 2's acquisition failed on the missing file.
C20_TempFileLostToOtherRun ==
  /\ acq[1].pc = "done"
  /\ acq[2].pc = "failed"
  /\ <<"overwritten", 2, 1>> \in foreign
  /\ <<"read", 1, 2>> \in foreign
  /\ <<"deleted", 1, 2>> \in foreign

Init == InitImg /\ InitOllama /\ InitErr /\ BatchFresh /\ BrowserFresh /\ ExtractFresh /\ BxFresh /\ StreamFresh

Next == NextImg \/ NextOllama \/ NextErr \/ NextBatch \/ NextBrowser \/ NextExtract \/ NextBx \/ NextStream

\* Before a downloadImages call; the other components untouched
InitDownload == InitImg /\ OllamaFresh(<<>>) /\ HandlerFresh(FALSE) /\ BatchFresh /\ BrowserFresh /\ ExtractFresh /\ BxFresh /\ StreamFresh

\* A fresh OllamaClient against a server with some inventory
InitClient == InitImg /\ InitOllama /\ HandlerFresh(FALSE) /\ BatchFresh /\ BrowserFresh /\ ExtractFresh /\ BxFresh /\ StreamFresh

\* A fresh ErrorHandler with some options
InitHandler == InitImg /\ OllamaFresh(<<>>) /\ InitErr /\ BatchFresh /\ BrowserFresh /\ ExtractFresh /\ BxFresh /\ StreamFresh

\* ImageDownloader.downloadImages on its own
SpecImg == InitDownload /\ [][NextImg]_vars

\* downloadImages with any maxConcurrent from 0 on, where every download,
\* hash and optimisation settles and the loop resumes after each batch
SpecImgLive ==
  /\ InitDownload
  /\ [][NextImgAny]_vars
  /\ WF_vars(\E p \in Positions : DownloadSettle(p))
  /\ WF_vars(\E p \in Positions : HashSettle(p))
  /\ WF_vars(\E p \in Positions : OptimizeSettle(p))
  /\ WF_vars(\E failing \in SUBSET Range(Slice(i + maxConcurrent, maxConcurrent, nImages)) :
               BatchSettled(failing))

\* OllamaClient.generateSummaryWithFallback on its own
SpecFallback == InitClient /\ [][NextFallback]_vars

\* OllamaClient.selectBestModel on its own
SpecSelect == InitClient /\ [][NextSelect]_vars

\* OllamaClient: overlapping calls on one instance
SpecOllama == InitClient /\ [][NextOllama]_vars

\* Overlapping calls on one client
SpecCache == InitClient /\ [][NextCache]_vars

\* One ErrorHandler instance: handle and reset calls
SpecHandler == InitHandler /\ [][NextHandler]_vars

\* Pipeline runs reporting errors through handleError
SpecRuns == InitHandler /\ [][NextRuns]_vars

\* One BrowserEngine.loadPageWithCookies call
SpecLoad == InitDownload /\ [][NextLoad]_vars

\* One BrowserEngine.detectPaywall call
SpecPaywall == InitDownload /\ [][NextPaywall]_vars

\* One pipeline run
SpecExtract == InitDownload /\ [][NextExtract]_vars

\* One generateSummaryStream call
SpecStream == InitDownload /\ [][NextStream]_vars

\* One batchExtract call in which readFile and every pipeline run settle and
\* the loop resumes after each group
SpecBxLive ==
  /\ InitDownload
  /\ [][NextBx]_vars
  /\ WF_vars(ReadSettled)
  /\ WF_vars(\E u \in 1..MaxUrls, ok \in BOOLEAN : RunSettled(u, ok))
  /\ WF_vars(GroupSettled)

\* One batchExtract call
SpecBx == InitDownload /\ [][NextBx]_vars

\* The image acquisition of the runs of one batch
SpecBatch == InitDownload /\ [][NextBatch]_vars

\* The static ErrorHandler.isFatal
SpecFatal == InitDownload /\ [][NextFatal]_vars

Spec == Init /\ [][Next]_vars

=============================================================================
